---- MODULE Spec2Model ----
(***************************************************************************)
(* Model of the AI resume analyzer.                                        *)
(*                                                                         *)
(*   Spec         QuizGenerator.generate_questions (src/quiz_generator.py) *)
(*                applied to an analysis result, one step per call of a    *)
(*                category generator or per iteration of its loop.         *)
(*   SpecAnalyze  ResumeAnalyzer.analyze_resume (src/resume_analyzer.py):  *)
(*                text extraction, document classification, section check. *)
(*   SpecAnalyzeFaults  the same, with an exception raised at any step of  *)
(*                the try block.                                           *)
(*   SpecApp      the /analyze route (src/app.py), several requests at     *)
(*                once over one upload folder.                             *)
(*   SpecSkills   ResumeAnalyzer.extract_skills.                           *)
(*   SpecPhone    ResumeAnalyzer.extract_contact_info, the phone number.   *)
(*   SpecAddress  ResumeAnalyzer.extract_contact_info, the address.        *)
(*   SpecName     ResumeAnalyzer.extract_name.                             *)
(*   SpecSummary  ResumeAnalyzer.generate_candidate_summary.               *)
(*   SpecWording  QuizGenerator.generate_unique_questions, one call, the   *)
(*                templates drawn by the general fill told apart.          *)
(*   SpecProjects ResumeAnalyzer.extract_section and extract_projects.     *)
(***************************************************************************)
EXTENDS Integers, Sequences, FiniteSets, TLC

\* ------------------------------------------------------------------------
\* Bounds of the model
\* ------------------------------------------------------------------------
MaxProjects == 5   \* analysis results hold 0..MaxProjects project names
MaxSkills == 5     \* analysis results hold 0..MaxSkills distinct skills

\* ------------------------------------------------------------------------
\* Helpers
\* ------------------------------------------------------------------------
Min(a, b) == IF a <= b THEN a ELSE b

Range(s) == {s[k] : k \in 1..Len(s)}

\* Python's seq[:n]
Prefix(s, n) == SubSeq(s, 1, Min(Len(s), n))

\* [x for x in s if x \in keep], order preserved
RECURSIVE Filter(_, _)
Filter(s, keep) ==
  IF s = <<>> THEN <<>>
  ELSE (IF Head(s) \in keep THEN <<Head(s)>> ELSE <<>>) \o Filter(Tail(s), keep)

\* ------------------------------------------------------------------------
\* QuizGenerator: the template pools
\* ------------------------------------------------------------------------
TDD == "technical_deep_dive"
PSP == "project_specifics"
PRB == "problem_solving"
IND == "industry_knowledge"
PRA == "practical_scenarios"

Categories == {TDD, PSP, PRB, IND, PRA}

\* A template is identified by the placeholders it contains: random.choice
\* over a pool yields a template of one of the pool's forms.  The first
\* technical_deep_dive template holds {skill1} and {skill2}, the six others
\* {skill}; every project_specifics template holds {project}; the templates
\* of the three other pools hold no placeholder.
Templates(category) ==
  IF category = TDD THEN {{"skill1", "skill2"}, {"skill"}}
  ELSE IF category = PSP THEN {{"project"}}
  ELSE {{}}

\* The placeholders a template contains.
Placeholders(template) == template

\* ------------------------------------------------------------------------
\* QuizGenerator: state
\* ------------------------------------------------------------------------
VARIABLES
  analysis_result,      \* the argument of generate_questions
  pc,                   \* position in generate_unique_questions
  all_questions,        \* the list being assembled
  used_question_types,  \* the set of categories marked as used
  i,                    \* index of the running loop
  count,                \* the count argument of the running generator
  available_categories, \* the list computed at the start of the general generator
  result,               \* the returned list (<<>> until the call returns)
  previous              \* <<structure of the list the previous call returned for
                        \* the same analysis result>>, <<>> when there was none

quizVars == <<analysis_result, pc, all_questions, used_question_types, i, count,
              available_categories, result, previous>>

\* ------------------------------------------------------------------------
\* ResumeAnalyzer: state
\* ------------------------------------------------------------------------
VARIABLES
  stage,           \* position in analyze_resume
  text,            \* the local `text` of extract_text, then of analyze_resume
  primary,         \* what extract_text_pymupdf did
  secondary,       \* what extract_text_pdfplumber did
  performed,       \* the steps of analyze_resume performed so far
  doc_validation,  \* the result of validate_document_type
  sections,        \* the result of validate_resume_sections
  analysis         \* the dict analyze_resume returns

analyzeVars == <<stage, text, primary, secondary, performed, doc_validation,
                 sections, analysis>>

VARIABLES
  exception        \* the exception thrown inside the `try` of analyze_resume,
                   \* and whether it left analyze_resume

\* ------------------------------------------------------------------------
\* app.py: state of the /analyze route
\* ------------------------------------------------------------------------
VARIABLES
  requests,        \* the /analyze requests being served, one record each
  uploads          \* the uploads folder: what is stored under each file name

appVars == <<requests, uploads>>

\* ------------------------------------------------------------------------
\* The field extractors and the summary, one call at a time
\* ------------------------------------------------------------------------
VARIABLES
  called,          \* the function that was called, "" before the call
  input,           \* its argument
  output           \* the value it returned

callVars == <<called, input, output>>

vars == <<quizVars, analyzeVars, exception, appVars, callVars>>

\* ------------------------------------------------------------------------
\* QuizGenerator: constants of generate_unique_questions
\* ------------------------------------------------------------------------
TotalQuestions == 10
MaxProjectsUsed == 3
QuestionsPerProject == 2

\* projects[:3]
UsedProjectsAll(projects) == projects
UsedProjects(projects) == Prefix(projects, MaxProjectsUsed)

\* remaining_slots = 10 - len(all_questions)
remaining_slots(questions) == TotalQuestions - Len(questions)

\* all_questions.extend(questions)
ExtendFront(list, questions) == questions \o list
Extend(list, questions) == list \o questions

\* return all_questions[:10]
TruncateShort(questions) == Prefix(questions, TotalQuestions - 1)
Truncate(questions) == Prefix(questions, TotalQuestions)

\* ------------------------------------------------------------------------
\* QuizGenerator: the category generators
\* ------------------------------------------------------------------------
ProjectCategories == <<PSP, TDD, PRB>>
ProjectFallback == <<PSP, PRB>>
SkillCategories == <<TDD, PRA>>
GeneralCategories == <<PRB, IND, PRA>>
GeneralFallback == <<PRB, IND>>

\* random.sample(population, k): k distinct elements in a random order
Sample(population, k) ==
  {s \in [1..k -> Range(population)] : \A a, b \in 1..k : a # b => s[a] # s[b]}

\* generate_diverse_project_questions: the categories a project may draw from
AvailableProjectCategories(used_types) ==
  LET available == Filter(ProjectCategories, Categories \ used_types)
  IN IF available = <<>> THEN ProjectFallback ELSE available

\* generate_diverse_project_questions: one question of a project
ProjectQuestion(project, category, template) ==
  IF "project" \in Placeholders(template)
  THEN [kind |-> "project", category |-> category, template |-> template,
        subject |-> project, other |-> 0, form |-> "formatted", unfilled |-> {}]
  ELSE [kind |-> "project", category |-> category, template |-> template,
        subject |-> project, other |-> 0, form |-> "prefixed",
        unfilled |-> Placeholders(template)]

\* generate_diverse_skill_questions: the categories the skill at hand may draw from
AvailableSkillCategories(used_types) ==
  Filter(SkillCategories,
         IF Cardinality(used_types) > 3 THEN Categories ELSE Categories \ used_types)

\* generate_diverse_skill_questions: the candidates of skill2
OtherSkills(skills, skill, category, template) ==
  IF "skill" \notin Placeholders(template)
     /\ "skill1" \in Placeholders(template) /\ Len(skills) > 1
  THEN Range(skills) \ {skill}
  ELSE {0}

\* generate_diverse_skill_questions: the question of one skill
SkillQuestion(skills, skill, category, template, skill2) ==
  IF "skill" \in Placeholders(template)
  THEN [kind |-> "skill", category |-> category, template |-> template,
        subject |-> skill, other |-> 0, form |-> "formatted", unfilled |-> {}]
  ELSE IF "skill1" \in Placeholders(template) /\ Len(skills) > 1
  THEN [kind |-> "skill", category |-> category, template |-> template,
        subject |-> skill, other |-> skill2, form |-> "formatted", unfilled |-> {}]
  ELSE [kind |-> "skill", category |-> category, template |-> template,
        subject |-> skill, other |-> 0, form |-> "prefixed",
        unfilled |-> Placeholders(template)]

\* generate_diverse_general_questions: the categories the fill cycles through
AvailableGeneralCategories(used_types) ==
  LET available == Filter(GeneralCategories, Categories \ used_types)
  IN IF available = <<>> THEN GeneralFallback ELSE available

\* generate_diverse_general_questions: one question, the template verbatim
GeneralQuestion(category, template) ==
  [kind |-> "general", category |-> category, template |-> template,
   subject |-> 0, other |-> 0, form |-> "verbatim",
   unfilled |-> Placeholders(template)]

\* ------------------------------------------------------------------------
\* QuizGenerator: structure of a question list
\* ------------------------------------------------------------------------
CountKind(questions, kind) ==
  Cardinality({k \in 1..Len(questions) : questions[k].kind = kind})

Structure(questions) ==
  [project |-> CountKind(questions, "project"),
   skill |-> CountKind(questions, "skill"),
   general |-> CountKind(questions, "general")]

\* ------------------------------------------------------------------------
\* QuizGenerator: generate_unique_questions
\* ------------------------------------------------------------------------
AnalysisResults ==
  {[projects |-> [k \in 1..np |-> k], skills |-> [k \in 1..ns |-> k],
    experience |-> ex, education |-> ed] :
     np \in 0..MaxProjects, ns \in 0..MaxSkills,
     ex \in {"", "text"}, ed \in {"", "text"}}

\* entry of generate_unique_questions
QuizInit ==
  /\ analysis_result \in AnalysisResults
  /\ pc = "projects"
  /\ all_questions = <<>>
  /\ used_question_types = {}
  /\ i = 0
  /\ count = 0
  /\ available_categories = <<>>
  /\ result = <<>>
  /\ previous = <<>>

\* The allocation of the slots left after the skill questions as an
\* allocator with experience and education quotas would make it:
\* min(2, remaining // 2) experience questions and min(1, remaining)
\* education questions ahead of the general fill.
QuotaQuestions(kind, n) ==
  [k \in 1..n |-> [kind |-> kind, category |-> kind, template |-> {},
                   subject |-> 0, other |-> 0, form |-> "formatted", unfilled |-> {}]]

EnterGeneralAfterQuotas(questions, used_types) ==
  LET remaining == remaining_slots(questions)
      experience == IF analysis_result.experience # "" /\ remaining > 0
                    THEN Min(2, remaining \div 2) ELSE 0
      education == IF analysis_result.education # "" /\ remaining - experience > 0
                   THEN Min(1, remaining - experience) ELSE 0
  IN /\ all_questions' = questions \o QuotaQuestions("experience", experience)
                                   \o QuotaQuestions("education", education)
     /\ pc' = "general"
     /\ count' = remaining - experience - education
     /\ available_categories' = AvailableGeneralCategories(used_types)

\* `if remaining_slots > 0`: the general fill is called with the slots left,
\* or skipped; nothing is appended between the skill questions and the fill
EnterGeneral(questions, used_types) ==
  /\ all_questions' = questions
  /\ IF remaining_slots(questions) > 0
     THEN /\ pc' = "general"
          /\ count' = remaining_slots(questions)
          /\ available_categories' = AvailableGeneralCategories(used_types)
     ELSE /\ pc' = "return"
          /\ count' = 0
          /\ available_categories' = <<>>

\* one iteration of `for project in projects[:3]`
ProjectLoop ==
  /\ pc = "projects"
  /\ i < Len(UsedProjects(analysis_result.projects))
  /\ LET project == UsedProjects(analysis_result.projects)[i + 1]
         available == AvailableProjectCategories(used_question_types)
     IN \E selected \in Sample(available, Min(2, Len(available))) :
        \E templates \in [1..Len(selected) -> UNION {Templates(c) : c \in Categories}] :
          /\ \A k \in 1..Len(selected) : templates[k] \in Templates(selected[k])
          /\ LET questions == [k \in 1..Len(selected) |->
                                 ProjectQuestion(project, selected[k], templates[k])]
             IN /\ all_questions' =
                     Extend(all_questions, Prefix(questions, QuestionsPerProject))
                /\ used_question_types' = used_question_types \cup Range(selected)
  /\ i' = i + 1
  /\ UNCHANGED <<analysis_result, pc, count, available_categories, result, previous>>
  /\ UNCHANGED <<analyzeVars, exception, appVars, callVars>>

\* the project loop is over: the skill generator is called, or skipped
ProjectsDone ==
  /\ pc = "projects"
  /\ i >= Len(UsedProjects(analysis_result.projects))
  /\ i' = 0
  /\ IF analysis_result.skills # <<>> /\ remaining_slots(all_questions) > 0
     THEN /\ pc' = "skills"
          /\ count' = remaining_slots(all_questions) \div 2
          /\ UNCHANGED <<all_questions, available_categories>>
     ELSE EnterGeneral(all_questions, used_question_types)
  /\ UNCHANGED <<analysis_result, used_question_types, result, previous>>
  /\ UNCHANGED <<analyzeVars, exception, appVars, callVars>>

\* one iteration of the loop of generate_diverse_skill_questions
SkillLoop ==
  /\ pc = "skills"
  /\ i < Min(count, Len(analysis_result.skills))
  /\ LET skills == analysis_result.skills
         skill == skills[i + 1]
         available == AvailableSkillCategories(used_question_types)
     IN IF available # <<>>
        THEN \E category \in Range(available) :
             \E template \in Templates(category) :
             \E skill2 \in OtherSkills(skills, skill, category, template) :
               /\ all_questions' =
                    Extend(all_questions,
                           <<SkillQuestion(skills, skill, category, template, skill2)>>)
               /\ used_question_types' = used_question_types \cup {category}
        ELSE UNCHANGED <<all_questions, used_question_types>>
  /\ i' = i + 1
  /\ UNCHANGED <<analysis_result, pc, count, available_categories, result, previous>>
  /\ UNCHANGED <<analyzeVars, exception, appVars, callVars>>

\* the skill generator returned: the general fill is called, or skipped
SkillsDone ==
  /\ pc = "skills"
  /\ i >= Min(count, Len(analysis_result.skills))
  /\ i' = 0
  /\ EnterGeneral(all_questions, used_question_types)
  /\ UNCHANGED <<analysis_result, used_question_types, result, previous>>
  /\ UNCHANGED <<analyzeVars, exception, appVars, callVars>>

\* one iteration of the loop of generate_diverse_general_questions
GeneralLoop ==
  /\ pc = "general"
  /\ i < count
  /\ LET category == available_categories[(i % Len(available_categories)) + 1]
     IN \E template \in Templates(category) :
          /\ all_questions' =
               Extend(all_questions, <<GeneralQuestion(category, template)>>)
          /\ used_question_types' = used_question_types \cup {category}
  /\ i' = i + 1
  /\ UNCHANGED <<analysis_result, pc, count, available_categories, result, previous>>
  /\ UNCHANGED <<analyzeVars, exception, appVars, callVars>>

\* the general generator returned
GeneralDone ==
  /\ pc = "general"
  /\ i >= count
  /\ pc' = "return"
  /\ UNCHANGED <<analysis_result, all_questions, used_question_types, i, count,
                 available_categories, result, previous>>
  /\ UNCHANGED <<analyzeVars, exception, appVars, callVars>>

\* return all_questions[:10]
Return ==
  /\ pc = "return"
  /\ result' = Truncate(all_questions)
  /\ pc' = "done"
  /\ UNCHANGED <<analysis_result, all_questions, used_question_types, i, count,
                 available_categories, previous>>
  /\ UNCHANGED <<analyzeVars, exception, appVars, callVars>>

\* generate_questions is called again on the same analysis result
CallAgain ==
  /\ pc = "done"
  /\ previous' = <<Structure(result)>>
  /\ pc' = "projects"
  /\ all_questions' = <<>>
  /\ used_question_types' = {}
  /\ i' = 0
  /\ count' = 0
  /\ available_categories' = <<>>
  /\ result' = <<>>
  /\ UNCHANGED analysis_result
  /\ UNCHANGED <<analyzeVars, exception, appVars, callVars>>

\* ------------------------------------------------------------------------
\* ResumeAnalyzer: texts
\* ------------------------------------------------------------------------
\* The words and phrases a document of the model is made of.  A text is the
\* set of them it contains, with or without surrounding whitespace; the text
\* with no word and no whitespace is the empty string.
Vocabulary ==
  {"Offer Letter", "Dear", "Congratulations", "official letter", "salary",
   "reporting", "RESUME", "Summary", "Email", "degree", "Engineer",
   "programming", "Experience", "Projects"}

Texts == [pad : BOOLEAN, words : SUBSET Vocabulary]

EmptyText == [pad |-> FALSE, words |-> {}]

\* str.lower() of a word
Lower(word) ==
  CASE word = "Offer Letter" -> "offer letter"
    [] word = "Dear" -> "dear"
    [] word = "Congratulations" -> "congratulations"
    [] word = "RESUME" -> "resume"
    [] word = "Summary" -> "summary"
    [] word = "Email" -> "email"
    [] word = "Engineer" -> "engineer"
    [] word = "Experience" -> "experience"
    [] word = "Projects" -> "projects"
    [] word = "NLP" -> "nlp"
    [] word = "Git" -> "git"
    [] word = "AI" -> "ai"
    [] word = "Machine Learning" -> "machine learning"
    [] word = "Java" -> "java"
    [] word = "HTML" -> "html"
    [] word = "React" -> "react"
    [] word = "Node.js" -> "node.js"
    [] word = "SQL" -> "sql"
    [] word = "AWS" -> "aws"
    [] word = "Swift" -> "swift"
    [] word = "Python" -> "python"
    [] OTHER -> word

\* text.lower()
LowerText(t) == [pad |-> t.pad, words |-> {Lower(w) : w \in t.words}]

\* text.strip()
StripNothing(t) == t
Strip(t) == [pad |-> FALSE, words |-> t.words]

\* `not text`
IsEmpty(t) == t.words = {} /\ ~t.pad

\* ------------------------------------------------------------------------
\* ResumeAnalyzer: the tables of __init__
\* ------------------------------------------------------------------------
non_resume_indicators ==
  << {"internship letter", "offer letter", "appointment letter"},
     {"dear", "congratulations", "pleased to inform"},
     {"company letterhead", "official letter"},
     {"terms and conditions", "salary", "compensation"},
     {"joining date", "start date", "reporting"} >>

resume_indicators ==
  << {"resume", "curriculum vitae", "cv"},
     {"objective", "summary", "profile"},
     {"phone", "email", "contact", "address"},
     {"bachelor", "master", "degree", "university", "college"},
     {"developer", "engineer", "analyst", "manager", "intern"},
     {"programming", "software", "web", "technical"} >>

SectionNames == <<"experience", "education", "skills", "projects">>

required_keywords ==
  [experience |-> {"experience", "work experience", "employment", "career",
                   "professional experience", "work history"},
   education |-> {"education", "academic", "degree", "university", "college",
                  "school", "qualification"},
   skills |-> {"skills", "technical skills", "competencies", "expertise",
               "technologies", "programming"},
   projects |-> {"projects", "project", "portfolio", "work samples", "achievements"}]

\* ------------------------------------------------------------------------
\* ResumeAnalyzer: validate_document_type
\* ------------------------------------------------------------------------
\* re.search(r'(?i)\b(a|b|c)\b', text): an alternative occurs as a whole word
Search(pattern, t) == \E w \in t.words : Lower(w) \in pattern

\* the loop `for pattern in patterns: if re.search(...): matches += 1`
RECURSIVE CountMatches(_, _)
CountMatches(patterns, t) ==
  IF patterns = <<>> THEN 0
  ELSE (IF Search(Head(patterns), t) THEN 1 ELSE 0) + CountMatches(Tail(patterns), t)

OfficialDocumentReason ==
  "Document appears to be an offer letter, internship letter, or other official document, not a resume."

InsufficientReason ==
  "Document does not contain sufficient resume characteristics. Please upload a valid resume."

\* `if non_resume_matches >= 2`
TooManyNonResumeStrict(non_resume_matches) == non_resume_matches > 2
TooManyNonResume(non_resume_matches) == non_resume_matches >= 2

\* `if resume_matches < 3`
TooFewResumeOffByOne(resume_matches) == resume_matches <= 3
TooFewResume(resume_matches) == resume_matches < 3

validate_document_type(t) ==
  LET text_lower == LowerText(t)
      non_resume_matches == CountMatches(non_resume_indicators, text_lower)
      resume_matches == CountMatches(resume_indicators, text_lower)
  IN IF TooManyNonResume(non_resume_matches)
     THEN [is_resume |-> FALSE, reason |-> OfficialDocumentReason, resume_score |-> 0]
     ELSE IF TooFewResume(resume_matches)
     THEN [is_resume |-> FALSE, reason |-> InsufficientReason, resume_score |-> 0]
     ELSE [is_resume |-> TRUE, reason |-> "", resume_score |-> resume_matches]

\* ------------------------------------------------------------------------
\* ResumeAnalyzer: validate_resume_sections
\* ------------------------------------------------------------------------
\* The section keywords that are substrings of a lower-cased word of the
\* vocabulary.
KeywordsIn(word) ==
  CASE word = "degree" -> {"degree"}
    [] word = "programming" -> {"programming"}
    [] word = "experience" -> {"experience"}
    [] word = "projects" -> {"projects", "project"}
    [] OTHER -> {}

\* `keyword in text_lower`
Contains(t, keyword) == \E w \in t.words : keyword \in KeywordsIn(w)

\* the check without `text.lower()`
validate_resume_sections_cased(t) ==
  [section \in Range(SectionNames) |->
     \E keyword \in required_keywords[section] : Contains(t, keyword)]

validate_resume_sections(t) ==
  LET text_lower == LowerText(t)
  IN [section \in Range(SectionNames) |->
        \E keyword \in required_keywords[section] : Contains(text_lower, keyword)]

\* [section for section, found in sections.items() if not found]
MissingSections(found) == Filter(SectionNames, {x \in Range(SectionNames) : ~found[x]})

\* str.title() of a section name or of a skill
Title(name) ==
  CASE name = "experience" -> "Experience"
    [] name = "education" -> "Education"
    [] name = "skills" -> "Skills"
    [] name = "projects" -> "Projects"
    [] name = "python" -> "Python"
    [] name = "java" -> "Java"
    [] name = "swift" -> "Swift"
    [] name = "react" -> "React"
    [] name = "machine learning" -> "Machine Learning"
    [] name = "git" -> "Git"

MaxMissingSections == 3

\* ------------------------------------------------------------------------
\* ResumeAnalyzer: analyze_resume
\* ------------------------------------------------------------------------
UnreadableMessage ==
  "Unable to extract text from PDF. Please ensure the file is not corrupted or password-protected."

NotAResumePrefix == "Please enter a valid resume only. "

MissingSectionsPrefix == "Please enter a valid industry resume. Missing key sections: "

NotRun == [status |-> "not run", text |-> EmptyText]

NoSections == [section \in Range(SectionNames) |-> FALSE]

NoValidation == [is_resume |-> FALSE, reason |-> "", resume_score |-> 0]

\* 'An error occurred while analyzing the resume. Please try again ...'
GenericMessage ==
  "An error occurred while analyzing the resume. Please try again with a different file."

\* The calls of analyze_resume that fill the analysis data and may find
\* nothing (extract_name always returns a name).  What a call finds depends
\* on parts of the text the vocabulary does not describe: a call either
\* finds something or returns its empty value.
SubExtractors ==
  {"extract_contact_info", "extract_skills", "extract_education",
   "extract_experience", "extract_projects"}

\* the value a call returns when it finds nothing
EmptyValue(extractor) ==
  CASE extractor = "extract_contact_info" -> [email |-> "", phone |-> "", address |-> ""]
    [] extractor = "extract_skills" -> <<>>
    [] extractor = "extract_projects" -> <<>>
    [] OTHER -> ""

NoFields ==
  [extractor \in SubExtractors |-> [empty |-> TRUE, value |-> EmptyValue(extractor)]]

NoAnalysis ==
  [is_valid |-> FALSE, error_message |-> "", detail |-> <<>>,
   sections_found |-> NoSections, full_text |-> EmptyText, fields |-> NoFields]

Rejection(message, detail) ==
  [is_valid |-> FALSE, error_message |-> message, detail |-> detail,
   sections_found |-> NoSections, full_text |-> EmptyText, fields |-> NoFields]

NoException == [thrown |-> "", escaped |-> FALSE]

\* the exceptions a statement inside the `try` may throw
Exceptions == {"ValueError", "MemoryError"}

\* an `except` clause that lets the exception leave analyze_resume
reraise(e) ==
  [analysis |-> NoAnalysis, exception |-> [thrown |-> e, escaped |-> TRUE]]

\* `except Exception as e:` logs str(e) and returns the generic error
except_Exception(e) ==
  [analysis |-> Rejection(GenericMessage, <<>>),
   exception |-> [thrown |-> e, escaped |-> FALSE]]

\* entry of analyze_resume
AnalyzeInit ==
  /\ stage = "extract_text"
  /\ text = EmptyText
  /\ primary = NotRun
  /\ secondary = NotRun
  /\ performed = {}
  /\ doc_validation = NoValidation
  /\ sections = NoSections
  /\ analysis = NoAnalysis
  /\ exception = NoException

\* what an extraction strategy does with the file: it raises, and the
\* strategy's `except` returns "", or it returns the text it found
Outcomes ==
  {[status |-> "raised", text |-> EmptyText]} \cup
  {[status |-> "returned", text |-> t] : t \in Texts}

\* a fallback that runs whatever the primary strategy returned
NeedsFallbackAlways(t) == TRUE

\* `if not text.strip():`
NeedsFallback(t) == IsEmpty(Strip(t))

\* text = self.extract_text_pymupdf(file_path)
ExtractPrimary ==
  /\ stage = "extract_text"
  /\ \E outcome \in Outcomes :
       /\ primary' = outcome
       /\ text' = outcome.text
  /\ performed' = performed \cup {"extract_text_pymupdf"}
  /\ stage' = "fallback"
  /\ UNCHANGED <<secondary, doc_validation, sections, analysis>>
  /\ UNCHANGED <<quizVars, exception, appVars, callVars>>

\* `if not text.strip(): text = self.extract_text_pdfplumber(file_path)`
ExtractSecondary ==
  /\ stage = "fallback"
  /\ NeedsFallback(text)
  /\ \E outcome \in Outcomes :
       /\ secondary' = outcome
       /\ text' = outcome.text
  /\ performed' = performed \cup {"extract_text_pdfplumber"}
  /\ stage' = "extracted"
  /\ UNCHANGED <<primary, doc_validation, sections, analysis>>
  /\ UNCHANGED <<quizVars, exception, appVars, callVars>>

\* the primary text is kept
KeepPrimary ==
  /\ stage = "fallback"
  /\ ~NeedsFallback(text)
  /\ stage' = "extracted"
  /\ UNCHANGED <<text, primary, secondary, performed, doc_validation, sections, analysis>>
  /\ UNCHANGED <<quizVars, exception, appVars, callVars>>

\* `return text.strip()`, then `if not text: return {...}` in analyze_resume
CheckText ==
  /\ stage = "extracted"
  /\ text' = Strip(text)
  /\ IF IsEmpty(text')
     THEN /\ analysis' = Rejection(UnreadableMessage, <<>>)
          /\ stage' = "done"
     ELSE /\ stage' = "validate_document_type"
          /\ UNCHANGED analysis
  /\ UNCHANGED <<primary, secondary, performed, doc_validation, sections>>
  /\ UNCHANGED <<quizVars, exception, appVars, callVars>>

\* doc_validation = self.validate_document_type(text), and the rejection
ValidateDocumentType ==
  /\ stage = "validate_document_type"
  /\ doc_validation' = validate_document_type(text)
  /\ performed' = performed \cup {"validate_document_type"}
  /\ IF ~doc_validation'.is_resume
     THEN /\ analysis' = Rejection(NotAResumePrefix, <<doc_validation'.reason>>)
          /\ stage' = "done"
     ELSE /\ stage' = "validate_resume_sections"
          /\ UNCHANGED analysis
  /\ UNCHANGED <<text, primary, secondary, sections>>
  /\ UNCHANGED <<quizVars, exception, appVars, callVars>>

\* sections = self.validate_resume_sections(text), and the rejection
ValidateResumeSections ==
  /\ stage = "validate_resume_sections"
  /\ sections' = validate_resume_sections(text)
  /\ performed' = performed \cup {"validate_resume_sections"}
  /\ LET missing_sections == MissingSections(sections')
     IN IF Len(missing_sections) >= MaxMissingSections
        THEN /\ analysis' = Rejection(MissingSectionsPrefix,
                                      [k \in 1..Len(missing_sections) |->
                                         Title(missing_sections[k])])
             /\ stage' = "done"
        ELSE /\ stage' = "extract_fields"
             /\ UNCHANGED analysis
  /\ UNCHANGED <<text, primary, secondary, doc_validation>>
  /\ UNCHANGED <<quizVars, exception, appVars, callVars>>

\* a sub-extractor that found nothing returned its empty value, the others
\* a value that is not empty
FieldValues(found) ==
  [extractor \in SubExtractors |->
     IF extractor \in found THEN [empty |-> FALSE, value |-> "found"]
     ELSE [empty |-> TRUE, value |-> EmptyValue(extractor)]]

\* analysis_data = {'is_valid': True, 'candidate_name': candidate_name, ...}
AnalysisData(found) ==
  [is_valid |-> TRUE, error_message |-> "", detail |-> <<>>,
   sections_found |-> sections, full_text |-> text,
   fields |-> FieldValues(found)]

\* the fields are extracted and the analysis data returned
ExtractFields ==
  /\ stage = "extract_fields"
  /\ performed' = performed \cup {"extract_fields"}
  /\ \E found \in SUBSET SubExtractors : analysis' = AnalysisData(found)
  /\ stage' = "done"
  /\ UNCHANGED <<text, primary, secondary, doc_validation, sections>>
  /\ UNCHANGED <<quizVars, exception, appVars, callVars>>

\* a statement inside the `try` of analyze_resume throws, and the `except`
\* clause of analyze_resume returns
Raise ==
  /\ stage \notin {"idle", "done"}
  /\ \E e \in Exceptions :
       /\ analysis' = except_Exception(e).analysis
       /\ exception' = except_Exception(e).exception
  /\ stage' = "done"
  /\ UNCHANGED <<text, primary, secondary, performed, doc_validation, sections>>
  /\ UNCHANGED <<quizVars, appVars, callVars>>

\* ------------------------------------------------------------------------
\* Specifications
\* ------------------------------------------------------------------------
\* the analyzer is not running
AnalyzeIdle ==
  /\ stage = "idle"
  /\ text = EmptyText
  /\ primary = NotRun
  /\ secondary = NotRun
  /\ performed = {}
  /\ doc_validation = NoValidation
  /\ sections = NoSections
  /\ analysis = NoAnalysis
  /\ exception = NoException

\* no /analyze request is being served
AppIdle ==
  /\ requests = <<>>
  /\ uploads = <<>>

\* no field extractor is being called
CallIdle ==
  /\ called = "idle"
  /\ input = <<>>
  /\ output = <<>>

\* the quiz generator is not running
QuizIdle ==
  /\ analysis_result = [projects |-> <<>>, skills |-> <<>>,
                        experience |-> "", education |-> ""]
  /\ pc = "idle"
  /\ all_questions = <<>>
  /\ used_question_types = {}
  /\ i = 0
  /\ count = 0
  /\ available_categories = <<>>
  /\ result = <<>>
  /\ previous = <<>>

Init == QuizInit /\ AnalyzeIdle /\ AppIdle /\ CallIdle

Next ==
  \/ ProjectLoop
  \/ ProjectsDone
  \/ SkillLoop
  \/ SkillsDone
  \/ GeneralLoop
  \/ GeneralDone
  \/ Return
  \/ CallAgain

Spec == Init /\ [][Next]_vars

InitAnalyze == AnalyzeInit /\ QuizIdle /\ AppIdle /\ CallIdle

NextAnalyze ==
  \/ ExtractPrimary
  \/ ExtractSecondary
  \/ KeepPrimary
  \/ CheckText
  \/ ValidateDocumentType
  \/ ValidateResumeSections
  \/ ExtractFields

SpecAnalyze == InitAnalyze /\ [][NextAnalyze]_vars

\* analyze_resume when a statement inside its `try` may throw
NextAnalyzeFaults ==
  \/ NextAnalyze
  \/ Raise

SpecAnalyzeFaults == InitAnalyze /\ [][NextAnalyzeFaults]_vars

\* ------------------------------------------------------------------------
\* Properties of generate_questions (checked under Spec)
\* ------------------------------------------------------------------------
Projects == analysis_result.projects
Skills == analysis_result.skills

\* the questions of the list that are about project p
QuestionsOfProject(questions, p) ==
  {k \in 1..Len(questions) : questions[k].kind = "project" /\ questions[k].subject = p}

\* position of a kind in the order project, skill, experience, education, general
Rank(kind) ==
  CASE kind = "project" -> 1
    [] kind = "skill" -> 2
    [] kind = "experience" -> 3
    [] kind = "education" -> 4
    [] OTHER -> 5

Grouped(questions) ==
  \A a, b \in 1..Len(questions) :
    a < b => Rank(questions[a].kind) <= Rank(questions[b].kind)

IsPrefix(s, t) == Len(s) <= Len(t) /\ SubSeq(t, 1, Len(s)) = s

\* C1: whatever the analysis result and the random draws, the returned list
\* holds exactly 10 questions.
ExactlyTenQuestions == pc = "done" => Len(result) = 10

\* C1 witness: a call with projects and skills has returned, the general
\* fill having supplied a part of the list.
ExactlyTenQuestionsWitness ==
  /\ pc = "done"
  /\ Projects # <<>>
  /\ Skills # <<>>
  /\ CountKind(result, "skill") > 0
  /\ CountKind(result, "general") > 0

\* C1 witness of the edge: no project and no skill, the whole list is general.
OnlyGeneralWitness ==
  pc = "done" /\ Projects = <<>> /\ Skills = <<>> /\ CountKind(result, "general") = 10

\* C2 (as claimed): every project the allocator uses contributes exactly 2
\* questions to the returned list.
TwoQuestionsPerProject ==
  pc = "done" =>
    \A p \in Range(UsedProjects(Projects)) :
      Cardinality(QuestionsOfProject(result, p)) = 2

\* C3 (as claimed): with 5 or more projects the 10 returned questions are the
\* project questions, 2 for each of the first 5 projects in project order.
FiveProjectsFillTheList ==
  (pc = "done" /\ Len(Projects) >= 5) =>
    /\ Len(result) = 10
    /\ \A k \in 1..Len(result) :
         result[k].kind = "project" /\ result[k].subject = (k + 1) \div 2

\* C3 (amended): with 5 or more projects only the first 3 are used; the list
\* starts with their questions in project order, at most 2 for each, and every
\* position after them holds a skill or general question.
FiveProjectsUseThree ==
  (pc = "done" /\ Len(Projects) >= 5) =>
    LET n == CountKind(result, "project")
    IN /\ n <= 6
       /\ Len(result) - n >= 4
       /\ \A k \in 1..Len(result) :
            IF k <= n
            THEN /\ result[k].kind = "project"
                 /\ result[k].subject \in {Projects[1], Projects[2], Projects[3]}
                 /\ k > 1 => result[k - 1].subject <= result[k].subject
            ELSE result[k].kind \in {"skill", "general"}
       /\ \A p \in Range(Projects) : Cardinality(QuestionsOfProject(result, p)) <= 2

\* C3 witness: a call with 5 or more projects has returned a list that holds
\* project, skill and general questions.
FiveProjectsWitness ==
  /\ pc = "done"
  /\ Len(Projects) >= 5
  /\ QuestionsOfProject(result, Projects[3]) # {}
  /\ CountKind(result, "skill") > 0
  /\ CountKind(result, "general") > 0

\* C4 (as claimed): the number of skill questions is min(skillCount,
\* remaining // 2) when skills are present and remaining > 0, else 0, where
\* remaining is 10 minus the number of project questions.
SkillQuota ==
  pc = "done" =>
    LET remaining == 10 - CountKind(result, "project")
    IN CountKind(result, "skill") =
         (IF Skills # <<>> /\ remaining > 0
          THEN Min(Len(Skills), remaining \div 2) ELSE 0)

\* C5 (as claimed): after the skill questions come min(2, remaining // 2)
\* experience questions when the experience text is non-empty, then
\* min(1, remaining) education questions when the education text is
\* non-empty, and the general questions fill what is left after them.
ExperienceEducationQuota ==
  pc = "done" =>
    LET remaining == 10 - CountKind(result, "project") - CountKind(result, "skill")
        experience == IF analysis_result.experience # "" /\ remaining > 0
                      THEN Min(2, remaining \div 2) ELSE 0
        left == remaining - experience
        education == IF analysis_result.education # "" /\ left > 0
                     THEN Min(1, left) ELSE 0
    IN /\ CountKind(result, "experience") = experience
       /\ CountKind(result, "education") = education
       /\ CountKind(result, "general") = left - education

\* C5 (amended): no experience and no education question is produced,
\* whatever the experience and education texts; the general questions fill
\* all the slots left after the project and skill questions.
NoExperienceEducationQuestions ==
  pc = "done" =>
    /\ CountKind(result, "experience") = 0
    /\ CountKind(result, "education") = 0
    /\ CountKind(result, "general") =
         10 - CountKind(result, "project") - CountKind(result, "skill")

\* C5 witness: a call whose analysis result has experience and education
\* text has returned, after skill questions and a general fill.
ExperienceEducationWitness ==
  /\ pc = "done"
  /\ analysis_result.experience # ""
  /\ analysis_result.education # ""
  /\ CountKind(result, "skill") > 0
  /\ CountKind(result, "general") > 0

\* C6: the list is grouped in the order project, skill, experience,
\* education, general while it is assembled and when it is returned, the
\* assembled list only ever grows at its end, and the returned list is the
\* assembled one.
GroupedInFixedOrder ==
  /\ [](Grouped(all_questions) /\ Grouped(result))
  /\ [](pc = "done" => result = Prefix(all_questions, 10))
  /\ [][pc' # "projects" => IsPrefix(all_questions, all_questions')]_vars

\* C6 witness: a returned list that holds questions of the three kinds.
GroupedWitness ==
  /\ pc = "done"
  /\ CountKind(result, "project") > 1
  /\ CountKind(result, "skill") > 1
  /\ CountKind(result, "general") > 1

\* C7 (as claimed): two calls on the same analysis result return lists of the
\* same structure: the same number of project, skill and general questions.
StructureIndependentOfDraws ==
  (pc = "done" /\ previous # <<>>) => Structure(result) = previous[1]

\* ------------------------------------------------------------------------
\* Properties of analyze_resume (checked under SpecAnalyze)
\* ------------------------------------------------------------------------
\* an extraction strategy yielded nothing: it raised, or the text it returned
\* holds no word
YieldedNothing(outcome) == outcome.status = "raised" \/ outcome.text.words = {}

\* the number of distinct patterns of a table that match a text
DistinctMatches(patterns, t) ==
  Cardinality({k \in 1..Len(patterns) : \E w \in t.words : Lower(w) \in patterns[k]})

AllSectionsPresent(t) ==
  \A section \in Range(SectionNames) :
    \E w \in t.words : KeywordsIn(Lower(w)) \cap required_keywords[section] # {}

\* C8: when the primary and the secondary extraction both yield empty or
\* whitespace-only text, a raise included, analyze_resume returns the
\* rejection with the 'unable to extract text' message, and neither the
\* classification nor the section check nor the field extraction is performed.
UnreadableRejected ==
  (stage = "done" /\ YieldedNothing(primary)
     /\ secondary.status # "not run" /\ YieldedNothing(secondary)) =>
    /\ analysis.is_valid = FALSE
    /\ analysis.error_message = UnreadableMessage
    /\ performed \cap {"validate_document_type", "validate_resume_sections",
                       "extract_fields"} = {}

\* C8 witness: the primary extraction raised, the secondary returned
\* whitespace only, and the analysis has returned.
UnreadableWitness ==
  /\ stage = "done"
  /\ primary.status = "raised"
  /\ secondary.status = "returned"
  /\ secondary.text = [pad |-> TRUE, words |-> {}]
  /\ analysis.error_message = UnreadableMessage

\* C9: validate_document_type rejects with the official-document reason
\* exactly the texts in which 2 or more distinct non-resume patterns match,
\* a pattern counting once however many of its words occur, and whatever
\* resume patterns and sections the text holds; analyze_resume then returns
\* the rejection carrying that reason.
OfficialDocumentRejected ==
  "validate_document_type" \in performed =>
    LET n == DistinctMatches(non_resume_indicators, text)
    IN /\ n >= 2 =>
            /\ doc_validation.is_resume = FALSE
            /\ doc_validation.reason = OfficialDocumentReason
            /\ stage = "done"
            /\ analysis = Rejection(NotAResumePrefix, <<OfficialDocumentReason>>)
       /\ n < 2 => doc_validation.reason # OfficialDocumentReason

\* C9 witness: a text in which 2 non-resume patterns, all 6 resume patterns
\* and all 4 sections are present has been rejected as an official document.
OfficialDocumentWitness ==
  /\ "validate_document_type" \in performed
  /\ DistinctMatches(non_resume_indicators, text) = 2
  /\ DistinctMatches(resume_indicators, text) = 6
  /\ AllSectionsPresent(text)
  /\ {"Dear", "Congratulations"} \subseteq text.words
  /\ doc_validation.reason = OfficialDocumentReason

\* C10: with fewer than 2 non-resume patterns, validate_document_type rejects
\* with the insufficient-resume-signal reason when fewer than 3 distinct
\* resume patterns match, and reports a resume, scored by the number of
\* matching resume patterns, when 3 or more match.
InsufficientSignalRejected ==
  "validate_document_type" \in performed =>
    LET n == DistinctMatches(non_resume_indicators, text)
        m == DistinctMatches(resume_indicators, text)
    IN /\ (n < 2 /\ m < 3) =>
            /\ doc_validation.is_resume = FALSE
            /\ doc_validation.reason = InsufficientReason
            /\ stage = "done"
            /\ analysis = Rejection(NotAResumePrefix, <<InsufficientReason>>)
       /\ (n < 2 /\ m >= 3) =>
            /\ doc_validation.is_resume = TRUE
            /\ doc_validation.resume_score = m
            /\ analysis.error_message # NotAResumePrefix

\* C10 witness: a text with 1 non-resume pattern and 2 resume patterns has
\* been rejected for insufficient resume signal.
InsufficientSignalWitness ==
  /\ "validate_document_type" \in performed
  /\ DistinctMatches(non_resume_indicators, text) = 1
  /\ DistinctMatches(resume_indicators, text) = 2
  /\ doc_validation.reason = InsufficientReason
  /\ analysis.is_valid = FALSE

\* C10 witness of the other side: a text with 1 non-resume pattern and
\* exactly 3 resume patterns has been reported as a resume.
ResumeAcceptedWitness ==
  /\ "validate_document_type" \in performed
  /\ DistinctMatches(non_resume_indicators, text) = 1
  /\ DistinctMatches(resume_indicators, text) = 3
  /\ doc_validation.is_resume

\* a section is present when one of its keywords is a substring of the
\* lower-cased text
SectionPresent(section, t) ==
  \E w \in t.words : KeywordsIn(Lower(w)) \cap required_keywords[section] # {}

AbsentSections(t) == {section \in Range(SectionNames) : ~SectionPresent(section, t)}

\* C11: a text that passed the indicator checks is rejected exactly when 3 or
\* 4 of the sections experience, education, skills and projects have none of
\* their keywords as a substring of the lower-cased text; the rejection lists
\* exactly the missing section names, title-cased; with at most 2 sections
\* missing the document is accepted and the result carries the presence flag
\* of each of the 4 sections.
MissingSectionsRejected ==
  (stage = "done" /\ "validate_resume_sections" \in performed) =>
    LET missing == AbsentSections(text)
    IN /\ Cardinality(missing) >= 3 =>
            /\ analysis.is_valid = FALSE
            /\ analysis.error_message = MissingSectionsPrefix
            /\ Len(analysis.detail) = Cardinality(missing)
            /\ Range(analysis.detail) = {Title(section) : section \in missing}
       /\ Cardinality(missing) <= 2 =>
            /\ analysis.is_valid = TRUE
            /\ DOMAIN analysis.sections_found = Range(SectionNames)
            /\ \A section \in Range(SectionNames) :
                 analysis.sections_found[section] = SectionPresent(section, text)

\* C11 witness: a text with the experience keyword only in upper case and
\* three sections missing has been rejected with the three names.
MissingSectionsWitness ==
  /\ stage = "done"
  /\ "validate_resume_sections" \in performed
  /\ "Experience" \in text.words
  /\ analysis.error_message = MissingSectionsPrefix
  /\ analysis.detail = <<"Education", "Skills", "Projects">>

\* C11 witness of the other side: a text with exactly two sections missing
\* has been accepted.
TwoMissingAcceptedWitness ==
  /\ stage = "done"
  /\ Cardinality(AbsentSections(text)) = 2
  /\ analysis.is_valid = TRUE
  /\ analysis.sections_found["experience"] = TRUE
  /\ analysis.sections_found["skills"] = FALSE

\* ------------------------------------------------------------------------
\* Properties of analyze_resume when a statement may throw (checked under
\* SpecAnalyzeFaults)
\* ------------------------------------------------------------------------
\* C12: analyze_resume never raises: an exception thrown during the text
\* extraction, the classification, the section check or the field extraction
\* does not leave analyze_resume, and the call returns is_valid False with
\* the fixed generic message and no detail of the exception; without an
\* exception, a document that reached the field extraction is accepted
\* whichever sub-extractors found nothing, each of those yielding its empty
\* value.
NeverRaises ==
  /\ exception.escaped = FALSE
  /\ exception.thrown # "" =>
       /\ stage = "done"
       /\ analysis.is_valid = FALSE
       /\ analysis.error_message = GenericMessage
       /\ analysis.detail = <<>>
  /\ (stage = "done" /\ exception.thrown = ""
        /\ Cardinality(AbsentSections(text)) <= 2
        /\ "validate_resume_sections" \in performed) =>
       /\ analysis.is_valid = TRUE
       /\ \A extractor \in SubExtractors :
            analysis.fields[extractor].empty =>
              analysis.fields[extractor].value = EmptyValue(extractor)

\* C12 witness: an exception thrown during the field extraction has been
\* turned into the generic error.
NeverRaisesWitness ==
  /\ stage = "done"
  /\ exception.thrown = "ValueError"
  /\ "validate_resume_sections" \in performed
  /\ Cardinality(AbsentSections(text)) <= 2
  /\ analysis.error_message = GenericMessage

\* C12 witness of the other side: a document for which every sub-extractor
\* found nothing has been accepted.
NothingFoundAcceptedWitness ==
  /\ stage = "done"
  /\ analysis.is_valid = TRUE
  /\ \A extractor \in SubExtractors : analysis.fields[extractor].empty

\* ------------------------------------------------------------------------
\* Properties of extract_text (checked under SpecAnalyze)
\* ------------------------------------------------------------------------
\* extract_text has returned
TextReturned ==
  stage \in {"validate_document_type", "validate_resume_sections",
             "extract_fields", "done"}

\* the strategy whose output extract_text returns
ChosenOutcome == IF secondary.status = "not run" THEN primary ELSE secondary

\* C19: extract_text runs the primary strategy first and the secondary one
\* only if the primary result is empty or whitespace-only, a raise inside a
\* strategy counting as an empty result; each strategy runs at most once per
\* call; the returned text is the output of the chosen strategy without its
\* surrounding whitespace, and it is empty only if both strategies yielded
\* nothing.
SecondaryOnlyAfterEmptyPrimary ==
  /\ [](/\ secondary.status # "not run" =>
             (primary.status # "not run" /\ YieldedNothing(primary))
        /\ (stage \notin {"idle", "extract_text", "fallback"}
              /\ primary.status # "not run" /\ YieldedNothing(primary)) =>
             secondary.status # "not run"
        /\ TextReturned =>
             /\ text = [pad |-> FALSE, words |-> ChosenOutcome.text.words]
             /\ text.words = {} =>
                  (YieldedNothing(primary) /\ secondary.status # "not run"
                     /\ YieldedNothing(secondary)))
  /\ [][/\ primary.status # "not run" => primary' = primary
        /\ secondary.status # "not run" => secondary' = secondary]_vars

\* C19 witness: the primary strategy returned whitespace only, the secondary
\* one a text with surrounding whitespace, and extract_text has returned that
\* text without the whitespace.
SecondaryOnlyAfterEmptyPrimaryWitness ==
  /\ TextReturned
  /\ primary = [status |-> "returned", text |-> [pad |-> TRUE, words |-> {}]]
  /\ secondary.status = "returned"
  /\ secondary.text.pad
  /\ secondary.text.words = {"RESUME", "Summary"}
  /\ text = [pad |-> FALSE, words |-> {"RESUME", "Summary"}]

\* C19 witness of the other side: the primary strategy returned a text and
\* the secondary one has not run.
PrimaryKeptWitness ==
  /\ TextReturned
  /\ primary.status = "returned"
  /\ primary.text.words # {}
  /\ secondary.status = "not run"
  /\ "extract_text_pdfplumber" \notin performed

\* ------------------------------------------------------------------------
\* app.py: the /analyze route
\* ------------------------------------------------------------------------
NumRequests == 2   \* the /analyze requests served concurrently

Requests == 1..NumRequests

\* the file names a client sends; "" is the unselected file input
OriginalNames == {"", "notes.txt", "my cv.pdf", "my_cv.pdf", "b.pdf"}

\* what the uploaded PDF is: a resume analyze_resume accepts, or a letter it
\* rejects
Documents == {"resume", "letter"}

\* allowed_file(filename)
allowed_file(filename) == filename \in {"my cv.pdf", "my_cv.pdf", "b.pdf"}

\* werkzeug's secure_filename: whitespace becomes an underscore
secure_filename(filename) == IF filename = "my cv.pdf" THEN "my_cv.pdf" ELSE filename

\* os.path.join(app.config['UPLOAD_FOLDER'], filename)
FilePaths == {secure_filename(name) : name \in {n \in OriginalNames : allowed_file(n)}}

\* the posted forms: without the 'resume' field, or with a file
UploadForms ==
  {[has_file |-> FALSE, filename |-> "", document |-> "letter"]} \cup
  {[has_file |-> TRUE, filename |-> name, document |-> "letter"] :
     name \in {n \in OriginalNames : ~allowed_file(n)}} \cup
  {[has_file |-> TRUE, filename |-> name, document |-> d] :
     name \in {n \in OriginalNames : allowed_file(n)}, d \in Documents}

\* no file under a path
NoFile == [owner |-> 0, document |-> "none"]

NoResponse == [status |-> 0, type |-> "", analysis_of |-> 0, error |-> ""]

NoResult == [is_valid |-> FALSE, analysis_of |-> 0, error |-> ""]

\* the state of the route before any request is served
AppInit ==
  /\ requests \in [Requests ->
       {[pc |-> "start", upload |-> u, file_path |-> "", analysis_result |-> NoResult,
         response |-> NoResponse, saved |-> FALSE, overwrote |-> 0, deleted |-> 0,
         own_file_left |-> FALSE] : u \in UploadForms}]
  /\ uploads = [path \in FilePaths |-> NoFile]

\* os.path.exists(file_path)
exists(path) == uploads[path] # NoFile

\* resume_analyzer.analyze_resume(file_path) of what is stored under the
\* path: a missing or truncated file yields no text
analyze_resume(path) ==
  LET content == uploads[path]
  IN IF content.document = "resume"
     THEN [is_valid |-> TRUE, analysis_of |-> content.owner, error |-> ""]
     ELSE IF content.document = "letter"
     THEN [is_valid |-> FALSE, analysis_of |-> content.owner, error |-> NotAResumePrefix]
     ELSE [is_valid |-> FALSE, analysis_of |-> 0, error |-> UnreadableMessage]

\* `return jsonify(...), status`, the uploads folder holding `files`
Respond(r, files, status, type, analysis_of, error) ==
  [requests[r] EXCEPT
     !.pc = "done",
     !.response = [status |-> status, type |-> type, analysis_of |-> analysis_of,
                   error |-> error],
     !.own_file_left = (requests[r].file_path # ""
                          /\ files[requests[r].file_path].owner = r)]

\* the three checks before the file is saved
CheckUpload(r) ==
  /\ requests[r].pc = "start"
  /\ LET upload == requests[r].upload
     IN IF ~upload.has_file
        THEN requests' = [requests EXCEPT
               ![r] = Respond(r, uploads, 400, "upload_error", 0, "No file uploaded")]
        ELSE IF upload.filename = ""
        THEN requests' = [requests EXCEPT
               ![r] = Respond(r, uploads, 400, "upload_error", 0, "No file selected")]
        ELSE IF ~allowed_file(upload.filename)
        THEN requests' = [requests EXCEPT
               ![r] = Respond(r, uploads, 400, "validation_error", 0, "Invalid file type")]
        ELSE requests' = [requests EXCEPT
               ![r].pc = "save",
               ![r].file_path = secure_filename(upload.filename)]
  /\ UNCHANGED uploads
  /\ UNCHANGED <<quizVars, analyzeVars, exception, callVars>>

\* file.save(file_path)
Save(r) ==
  /\ requests[r].pc = "save"
  /\ LET path == requests[r].file_path
     IN /\ uploads' = [uploads EXCEPT
             ![path] = [owner |-> r, document |-> requests[r].upload.document]]
        /\ requests' = [requests EXCEPT
             ![r].pc = "analyze",
             ![r].saved = TRUE,
             ![r].overwrote = uploads[path].owner]
  /\ UNCHANGED <<quizVars, analyzeVars, exception, callVars>>

\* file.save(file_path) raises, before the file is created or after it was
\* created and partly written
SaveFails(r) ==
  /\ requests[r].pc = "save"
  /\ LET path == requests[r].file_path
     IN \/ UNCHANGED uploads
        \/ uploads' = [uploads EXCEPT ![path] = [owner |-> r, document |-> "truncated"]]
  /\ requests' = [requests EXCEPT ![r].pc = "except"]
  /\ UNCHANGED <<quizVars, analyzeVars, exception, callVars>>

\* analysis_result = resume_analyzer.analyze_resume(file_path)
Analyze(r) ==
  /\ requests[r].pc = "analyze"
  /\ LET returned == analyze_resume(requests[r].file_path)
     IN requests' = [requests EXCEPT
          ![r].analysis_result = returned,
          ![r].pc = IF returned.is_valid THEN "generate" ELSE "rejected"]
  /\ UNCHANGED uploads
  /\ UNCHANGED <<quizVars, analyzeVars, exception, callVars>>

\* `if not analysis_result['is_valid']: os.remove(file_path); return ..., 400`
RemoveRejected(r) ==
  /\ requests[r].pc = "rejected"
  /\ LET path == requests[r].file_path
     IN IF exists(path)
        THEN /\ uploads' = [uploads EXCEPT ![path] = NoFile]
             /\ requests' = [requests EXCEPT
                  ![r] = [Respond(r, uploads', 400, "validation_error", 0,
                                  requests[r].analysis_result.error)
                            EXCEPT !.deleted = uploads[path].owner]]
        ELSE /\ requests' = [requests EXCEPT ![r].pc = "except"]
             /\ UNCHANGED uploads
  /\ UNCHANGED <<quizVars, analyzeVars, exception, callVars>>

\* questions = quiz_generator.generate_questions(analysis_result)
Generate(r) ==
  /\ requests[r].pc = "generate"
  /\ requests' = [requests EXCEPT ![r].pc = "cleanup"]
  /\ UNCHANGED uploads
  /\ UNCHANGED <<quizVars, analyzeVars, exception, callVars>>

\* `os.remove(file_path); return jsonify({'success': True, ...})`
RemoveSuccess(r) ==
  /\ requests[r].pc = "cleanup"
  /\ LET path == requests[r].file_path
     IN IF exists(path)
        THEN /\ uploads' = [uploads EXCEPT ![path] = NoFile]
             /\ requests' = [requests EXCEPT
                  ![r] = [Respond(r, uploads', 200, "success",
                                  requests[r].analysis_result.analysis_of, "")
                            EXCEPT !.deleted = uploads[path].owner]]
        ELSE /\ requests' = [requests EXCEPT ![r].pc = "except"]
             /\ UNCHANGED uploads
  /\ UNCHANGED <<quizVars, analyzeVars, exception, callVars>>

\* `except Exception`: `if 'file_path' in locals() and os.path.exists(file_path)`
ExceptExists(r) ==
  /\ requests[r].pc = "except"
  /\ IF exists(requests[r].file_path)
     THEN requests' = [requests EXCEPT ![r].pc = "except_remove"]
     ELSE requests' = [requests EXCEPT
            ![r] = Respond(r, uploads, 500, "processing_error", 0, "An error occurred")]
  /\ UNCHANGED uploads
  /\ UNCHANGED <<quizVars, analyzeVars, exception, callVars>>

\* the os.remove(file_path) of the `except` clause, and its return; when the
\* file is gone os.remove raises and the exception leaves the route
ExceptRemove(r) ==
  /\ requests[r].pc = "except_remove"
  /\ LET path == requests[r].file_path
     IN IF exists(path)
        THEN /\ uploads' = [uploads EXCEPT ![path] = NoFile]
             /\ requests' = [requests EXCEPT
                  ![r] = [Respond(r, uploads', 500, "processing_error", 0,
                                  "An error occurred")
                            EXCEPT !.deleted = uploads[path].owner]]
        ELSE /\ requests' = [requests EXCEPT
                  ![r] = Respond(r, uploads, 500, "unhandled", 0, "FileNotFoundError")]
             /\ UNCHANGED uploads
  /\ UNCHANGED <<quizVars, analyzeVars, exception, callVars>>

InitApp == AppInit /\ QuizIdle /\ AnalyzeIdle /\ CallIdle

NextApp ==
  \E r \in Requests :
    \/ CheckUpload(r)
    \/ Save(r)
    \/ SaveFails(r)
    \/ Analyze(r)
    \/ RemoveRejected(r)
    \/ Generate(r)
    \/ RemoveSuccess(r)
    \/ ExceptExists(r)
    \/ ExceptRemove(r)

\* the /analyze route serving NumRequests requests in threads
SpecApp == InitApp /\ [][NextApp]_vars

\* ------------------------------------------------------------------------
\* Properties of the /analyze route (checked under SpecApp)
\* ------------------------------------------------------------------------
\* analyze_resume has returned to the request
Analyzed(r) == requests[r].analysis_result # NoResult

\* C13 (as claimed): for every /analyze request that saved the upload, the
\* saved file is no longer in the uploads folder when the response is
\* returned, and the request returns its normal response after the deletion:
\* the success response when the analysis was valid, the validation error
\* when the document was rejected, the processing error when an exception
\* was thrown before the analysis returned.
TempFileDeleted ==
  \A r \in Requests :
    (requests[r].pc = "done" /\ requests[r].saved) =>
      /\ ~requests[r].own_file_left
      /\ (Analyzed(r) /\ requests[r].analysis_result.is_valid) =>
           (requests[r].response.status = 200 /\ requests[r].response.type = "success")
      /\ (Analyzed(r) /\ ~requests[r].analysis_result.is_valid) =>
           (requests[r].response.status = 400
              /\ requests[r].response.type = "validation_error")
      /\ ~Analyzed(r) =>
           (requests[r].response.status = 500
              /\ requests[r].response.type = "processing_error")

\* the response a request gets when no other request is served
ResponseAlone(r) ==
  LET upload == requests[r].upload
  IN IF ~upload.has_file \/ upload.filename = ""
     THEN {[status |-> 400, type |-> "upload_error", analysis_of |-> 0]}
     ELSE IF ~allowed_file(upload.filename)
     THEN {[status |-> 400, type |-> "validation_error", analysis_of |-> 0]}
     ELSE IF ~requests[r].saved
     THEN {[status |-> 500, type |-> "processing_error", analysis_of |-> 0]}
     ELSE IF upload.document = "resume"
     THEN {[status |-> 200, type |-> "success", analysis_of |-> r]}
     ELSE {[status |-> 400, type |-> "validation_error", analysis_of |-> 0]}

\* C14 (as claimed): in every interleaving of the requests, two requests that
\* save under the same secured file name included, each response is the one
\* the request would get alone, and no request reads, overwrites or deletes
\* a file saved by another request.
RequestsIndependent ==
  \A r \in Requests :
    /\ requests[r].pc = "done" =>
         [status |-> requests[r].response.status, type |-> requests[r].response.type,
          analysis_of |-> requests[r].response.analysis_of] \in ResponseAlone(r)
    /\ requests[r].analysis_result.analysis_of \in {0, r}
    /\ requests[r].overwrote \in {0, r}
    /\ requests[r].deleted \in {0, r}

\* ------------------------------------------------------------------------
\* ResumeAnalyzer: extract_skills
\* ------------------------------------------------------------------------
\* A text of this part is a sequence of terms, in the order in which they
\* occur in the document; the texts of the model are the documents made of
\* some of the terms of SkillDocument, in its order.
SkillDocument ==
  <<"NLP", "Git", "python", "AI", "Machine Learning", "Java", "javascript", "HTML",
    "React", "Node.js", "SQL", "AWS", "Swift", "Python", "ai">>

\* the terms of a document kept at the positions `kept`
RECURSIVE Keep(_, _, _)
Keep(document, kept, k) ==
  IF k > Len(document) THEN <<>>
  ELSE (IF k \in kept THEN <<document[k]>> ELSE <<>>) \o Keep(document, kept, k + 1)

SkillTexts == {Keep(SkillDocument, kept, 1) : kept \in SUBSET (1..Len(SkillDocument))}

\* the skills of self.skill_categories the texts can mention, in the order of
\* all_tech_skills: programming_languages, web_technologies, databases,
\* cloud_devops, data_science_ml, tools_frameworks, mobile_development ('swift'
\* is listed in two categories)
all_tech_skills ==
  <<"python", "java", "javascript", "swift", "html", "react", "node.js", "sql", "aws",
    "machine learning", "nlp", "git", "swift">>

\* the alternatives of the three tech_patterns, lower-cased
tech_patterns ==
  <<{"c++", "c#", ".net", "rest api", "graphql"},
    {"machine learning", "deep learning", "data science", "ai", "ml", "nlp"},
    {"react.js", "angular.js", "vue.js", "node.js"}>>

\* str.upper() of a skill
Upper(name) ==
  CASE name = "html" -> "HTML"
    [] name = "sql" -> "SQL"
    [] name = "nlp" -> "NLP"
    [] name = "aws" -> "AWS"

\* the label appended for a skill of the vocabulary
Display(skill) ==
  IF skill \in {"html", "css", "sql", "php", "api", "nlp", "aws", "gcp", "ios"}
  THEN Upper(skill)
  ELSE IF skill \in {"javascript", "typescript", "node.js", "vue.js"}
  THEN skill
  ELSE Title(skill)

\* [x.lower() for x in terms]
LowerAll(terms) == [k \in 1..Len(terms) |-> Lower(terms[k])]

\* the loop over all_tech_skills: re.search(rf'\b{skill}\b', text_lower)
RECURSIVE VocabularyScan(_, _)
VocabularyScan(skills, text_lower) ==
  IF skills = <<>> THEN <<>>
  ELSE (IF Head(skills) \in Range(text_lower) THEN <<Display(Head(skills))>> ELSE <<>>)
         \o VocabularyScan(Tail(skills), text_lower)

\* re.findall(pattern, text, re.IGNORECASE): the matches as written in the
\* text, in the order of the text
RECURSIVE findall(_, _)
findall(pattern, terms) ==
  IF terms = <<>> THEN <<>>
  ELSE (IF Lower(Head(terms)) \in pattern THEN <<Head(terms)>> ELSE <<>>)
         \o findall(pattern, Tail(terms))

\* the loop over tech_patterns
RECURSIVE PatternScan(_, _)
PatternScan(patterns, terms) ==
  IF patterns = <<>> THEN <<>>
  ELSE findall(Head(patterns), terms) \o PatternScan(Tail(patterns), terms)

\* a removal of duplicates that compares the labels as written
RECURSIVE unique_skills_exact(_, _)
unique_skills_exact(found_skills, seen) ==
  IF found_skills = <<>> THEN <<>>
  ELSE IF Head(found_skills) \in seen
  THEN unique_skills_exact(Tail(found_skills), seen)
  ELSE <<Head(found_skills)>>
         \o unique_skills_exact(Tail(found_skills), seen \cup {Head(found_skills)})

\* the loop `if skill_lower not in seen: unique_skills.append(skill)`
RECURSIVE unique_skills(_, _)
unique_skills(found_skills, seen) ==
  IF found_skills = <<>> THEN <<>>
  ELSE IF Lower(Head(found_skills)) \in seen
  THEN unique_skills(Tail(found_skills), seen)
  ELSE <<Head(found_skills)>>
         \o unique_skills(Tail(found_skills), seen \cup {Lower(Head(found_skills))})

MaxReturnedSkills == 12

extract_skills(terms) ==
  LET text_lower == LowerAll(terms)
      found_skills == VocabularyScan(all_tech_skills, text_lower)
                        \o PatternScan(tech_patterns, terms)
  IN Prefix(unique_skills(found_skills, {}), MaxReturnedSkills)

SkillsInit ==
  /\ called = ""
  /\ input \in SkillTexts
  /\ output = <<>>

CallExtractSkills ==
  /\ called = ""
  /\ called' = "extract_skills"
  /\ output' = extract_skills(input)
  /\ UNCHANGED input
  /\ UNCHANGED <<quizVars, analyzeVars, exception, appVars>>

InitSkills == SkillsInit /\ QuizIdle /\ AnalyzeIdle /\ AppIdle

NextSkills == CallExtractSkills

\* extract_skills applied to a text
SpecSkills == InitSkills /\ [][NextSkills]_vars

\* ------------------------------------------------------------------------
\* Properties of extract_skills (checked under SpecSkills)
\* ------------------------------------------------------------------------
\* the skills a text mentions, lower-cased: those of the vocabulary, and those
\* of the patterns
VocabularyKeys(terms) == {Lower(term) : term \in Range(terms)} \cap Range(all_tech_skills)

PatternKeys(terms) ==
  {Lower(term) : term \in Range(terms)} \cap UNION Range(tech_patterns)

\* the least element of a non-empty set of numbers
Least(S) == CHOOSE n \in S : \A m \in S : n <= m

\* when a skill is first seen: in the vocabulary scan at its first place in
\* the vocabulary, otherwise in the pattern scan, pattern by pattern and,
\* within a pattern, in the order of the text
FirstSeen(key, terms) ==
  IF key \in VocabularyKeys(terms)
  THEN Least({k \in 1..Len(all_tech_skills) : all_tech_skills[k] = key})
  ELSE Len(all_tech_skills)
         + (Least({p \in 1..Len(tech_patterns) : key \in tech_patterns[p]}) - 1) * Len(terms)
         + Least({k \in 1..Len(terms) : Lower(terms[k]) = key})

\* C15: extract_skills returns at most 12 labels, no two of them equal when
\* compared without case, in the order in which the skills were first seen
\* (vocabulary scan in category order, then the pattern matches); the skills
\* left out are those seen after the 12 returned; a text that holds both
\* "Python" and "python" yields exactly one label for it, "Python".
SkillsCappedAndDistinct ==
  called = "extract_skills" =>
    LET keys == VocabularyKeys(input) \cup PatternKeys(input)
        returned == {Lower(output[k]) : k \in 1..Len(output)}
        seen == [key \in keys |-> FirstSeen(key, input)]
    IN /\ Len(output) <= 12
       /\ Len(output) = Min(12, Cardinality(keys))
       /\ returned \subseteq keys
       /\ \A a, b \in 1..Len(output) :
            a < b => /\ Lower(output[a]) # Lower(output[b])
                     /\ seen[Lower(output[a])] < seen[Lower(output[b])]
       /\ \A key \in keys \ returned : \A other \in returned : seen[other] < seen[key]
       /\ {"Python", "python"} \subseteq Range(input) =>
            /\ Cardinality({k \in 1..Len(output) : Lower(output[k]) = "python"}) = 1
            /\ output[1] = "Python"

\* C15 witness: a text that holds "Python", "python", "AI" and "ai" and 13
\* skills in all has yielded 12 labels, "Python" first.
SkillsCappedAndDistinctWitness ==
  /\ called = "extract_skills"
  /\ {"Python", "python", "AI", "ai"} \subseteq Range(input)
  /\ Cardinality(VocabularyKeys(input) \cup PatternKeys(input)) = 13
  /\ Len(output) = 12
  /\ output[1] = "Python"

\* ------------------------------------------------------------------------
\* ResumeAnalyzer: extract_contact_info, the phone number
\* ------------------------------------------------------------------------
\* A text of this part is a sequence of characters.
MaxNumbers == 2   \* a text holds 1..MaxNumbers phone-like fragments

IsDigit(c) == c \in {"0", "1", "2", "3", "4", "5", "6", "7", "8", "9"}

\* what is written before the digits of a fragment
NumberPrefixes ==
  {<<>>, <<"+", "9", "1", " ">>, <<"+", "9", "1">>, <<"+", " ", "9", "1", " ">>,
   <<"+", "1", " ">>}

\* the digits of a fragment: 10 digits that start with 9, 4 or 1, written in
\* a row or as (ddd) ddd-dddd, followed or not by an 11th digit
NumberBodies ==
  {<<lead, "8", "7", "6", "5", "4", "3", "2", "1", "0">> \o extra :
     lead \in {"9", "4", "1"}, extra \in {<<>>, <<"5">>}} \cup
  {<<"(", lead, "8", "7", ")", " ", "6", "5", "4", "-", "3", "2", "1", "0">> \o extra :
     lead \in {"9", "4", "1"}, extra \in {<<>>, <<"5">>}}

Fragments == {prefix \o body : prefix \in NumberPrefixes, body \in NumberBodies}

\* the fragments of a text are separated by " x "
RECURSIVE PhoneTextsOf(_)
PhoneTextsOf(n) ==
  IF n = 1 THEN Fragments
  ELSE PhoneTextsOf(n - 1) \cup
       {t \o <<" ", "x", " ">> \o f : t \in PhoneTextsOf(n - 1), f \in Fragments}

PhoneTexts == PhoneTextsOf(MaxNumbers)

\* the character at a position, "" beyond the end
At(s, k) == IF k \in 1..Len(s) THEN s[k] ELSE ""

\* the position after the whitespace that starts at k
RECURSIVE SkipSpaces(_, _)
SkipSpaces(s, k) == IF At(s, k) = " " THEN SkipSpaces(s, k + 1) ELSE k

\* [0-9]{n} at position k
DigitsAt(s, k, n) == \A d \in k..(k + n - 1) : IsDigit(At(s, d))

\* s has t at position k
HasAt(s, k, t) == \A d \in 1..Len(t) : At(s, k + d - 1) = t[d]

\* `sub in s`
ContainsText(s, sub) == \E k \in 1..Len(s) : HasAt(s, k, sub)

\* The position of the last character of the match of a phone pattern that
\* starts at position k, 0 when the pattern does not match there.
\*   1  \+\s*91\s+[0-9]{10}
\*   2  \+91[0-9]{10}
\*   3  \+1\s*\([0-9]{3}\)\s*[0-9]{3}[-\s]?[0-9]{4}
\*   4  \([0-9]{3}\)\s*[0-9]{3}[-\s]?[0-9]{4}
USNumberEnd(s, k) ==
  IF At(s, k) = "(" /\ DigitsAt(s, k + 1, 3) /\ At(s, k + 4) = ")"
  THEN LET g == SkipSpaces(s, k + 5)
       IN IF ~DigitsAt(s, g, 3) THEN 0
          ELSE IF At(s, g + 3) \in {"-", " "}
          THEN (IF DigitsAt(s, g + 4, 4) THEN g + 7 ELSE 0)
          ELSE (IF DigitsAt(s, g + 3, 4) THEN g + 6 ELSE 0)
  ELSE 0

MatchEnd(pattern, s, k) ==
  CASE pattern = 1 ->
         IF At(s, k) = "+"
         THEN LET c == SkipSpaces(s, k + 1)
                  g == SkipSpaces(s, c + 2)
              IN IF HasAt(s, c, <<"9", "1">>) /\ g > c + 2 /\ DigitsAt(s, g, 10)
                 THEN g + 9 ELSE 0
         ELSE 0
    [] pattern = 2 ->
         IF HasAt(s, k, <<"+", "9", "1">>) /\ DigitsAt(s, k + 3, 10) THEN k + 12 ELSE 0
    [] pattern = 3 ->
         IF HasAt(s, k, <<"+", "1">>) THEN USNumberEnd(s, SkipSpaces(s, k + 2)) ELSE 0
    [] pattern = 4 -> USNumberEnd(s, k)

phone_patterns == <<1, 2, 3, 4>>

\* re.search(pattern, text): the leftmost match, <<>> when there is none
RECURSIVE re_search(_, _, _)
re_search(pattern, s, k) ==
  IF k > Len(s) THEN <<>>
  ELSE IF MatchEnd(pattern, s, k) > 0 THEN SubSeq(s, k, MatchEnd(pattern, s, k))
  ELSE re_search(pattern, s, k + 1)

\* re.sub(r'[^\d]', '', phone.replace(code, ''))
RECURSIVE DigitsWithout(_, _)
DigitsWithout(s, code) ==
  IF s = <<>> THEN <<>>
  ELSE IF code # <<>> /\ HasAt(s, 1, code)
  THEN DigitsWithout(SubSeq(s, Len(code) + 1, Len(s)), code)
  ELSE (IF IsDigit(Head(s)) THEN <<Head(s)>> ELSE <<>>) \o DigitsWithout(Tail(s), code)

\* f"+91 {digits}"
IndianForm(digits) == <<"+", "9", "1", " ">> \o digits

\* f"+1 ({digits[:3]}) {digits[3:6]}-{digits[6:]}"
USForm(digits) ==
  <<"+", "1", " ", "(">> \o SubSeq(digits, 1, 3) \o <<")", " ">>
    \o SubSeq(digits, 4, 6) \o <<"-">> \o SubSeq(digits, 7, Len(digits))

\* the body of the loop for one match: the phone it sets, <<>> when the
\* match does not validate
Validate(phone) ==
  IF ContainsText(phone, <<"+", "9", "1">>)
  THEN LET digits == DigitsWithout(phone, <<"+", "9", "1">>)
       IN IF Len(digits) = 10 /\ digits[1] \in {"6", "7", "8", "9"}
          THEN IndianForm(digits) ELSE <<>>
  ELSE IF ContainsText(phone, <<"+", "1">>)
  THEN LET digits == DigitsWithout(phone, <<"+", "1">>)
       IN IF Len(digits) = 10 THEN USForm(digits) ELSE <<>>
  ELSE LET digits == DigitsWithout(phone, <<>>)
       IN IF Len(digits) = 10 /\ digits[1] \in {"6", "7", "8", "9"}
          THEN IndianForm(digits)
          ELSE IF Len(digits) = 10 /\ digits[1] \in {"2", "3", "4", "5"}
          THEN USForm(digits)
          ELSE <<>>

\* `for pattern in phone_patterns: ... break`
RECURSIVE PhoneLoop(_, _)
PhoneLoop(patterns, s) ==
  IF patterns = <<>> THEN <<>>
  ELSE LET phone_match == re_search(Head(patterns), s, 1)
       IN IF phone_match # <<>> /\ Validate(phone_match) # <<>>
          THEN Validate(phone_match)
          ELSE PhoneLoop(Tail(patterns), s)

\* contact_info['phone'] of extract_contact_info
extract_phone(s) == PhoneLoop(phone_patterns, s)

PhoneInit ==
  /\ called = ""
  /\ input \in PhoneTexts
  /\ output = <<>>

CallExtractPhone ==
  /\ called = ""
  /\ called' = "extract_contact_info"
  /\ output' = extract_phone(input)
  /\ UNCHANGED input
  /\ UNCHANGED <<quizVars, analyzeVars, exception, appVars>>

InitPhone == PhoneInit /\ QuizIdle /\ AnalyzeIdle /\ AppIdle

NextPhone == CallExtractPhone

\* the phone number extract_contact_info finds in a text
SpecPhone == InitPhone /\ [][NextPhone]_vars

\* ------------------------------------------------------------------------
\* Properties of the phone extraction (checked under SpecPhone)
\* ------------------------------------------------------------------------
\* the display forms: '+91 ' and 10 digits that begin with 6-9, or
\* '+1 (ddd) ddd-dddd'
IsDisplayForm(p) ==
  \/ /\ Len(p) = 14
     /\ HasAt(p, 1, <<"+", "9", "1", " ">>)
     /\ \A k \in 5..14 : IsDigit(p[k])
     /\ p[5] \in {"6", "7", "8", "9"}
  \/ /\ Len(p) = 17
     /\ HasAt(p, 1, <<"+", "1", " ", "(">>) /\ p[8] = ")" /\ p[9] = " " /\ p[13] = "-"
     /\ \A k \in {5, 6, 7, 10, 11, 12, 14, 15, 16, 17} : IsDigit(p[k])

\* the 10 digits of the number a display form shows
NationalDigits(p) ==
  IF p[2] = "9" THEN SubSeq(p, 5, 14) ELSE SelectSeq(SubSeq(p, 4, Len(p)), IsDigit)

\* the text holds the number as a complete number: its 10 digits, written in
\* a row or with brackets, spaces and a hyphen, with no digit right after
\* them and no digit but those of the country code right before them
HoldsCompleteNumber(s, digits) ==
  \E a \in 1..Len(s) : \E b \in a..Min(Len(s), a + 14) :
    /\ \A k \in a..b : IsDigit(s[k]) \/ s[k] \in {"(", ")", " ", "-"}
    /\ SelectSeq(SubSeq(s, a, b), IsDigit) = digits
    /\ \/ ~IsDigit(At(s, a - 1))
       \/ HasAt(s, a - 3, <<"+", "9", "1">>)
       \/ HasAt(s, a - 2, <<"+", "1">>)
    /\ ~IsDigit(At(s, b + 1))

\* C16 (as claimed): the phone field is empty or the display form of a
\* complete number present in the text that satisfies a country rule, never
\* a part of a longer number; '+91 9876543210' yields '+91 9876543210'; a
\* digit run that matches no rule, such as an 11-digit number, yields an
\* empty phone.
PhoneIsCompleteNumber ==
  called = "extract_contact_info" =>
    /\ output # <<>> =>
         (IsDisplayForm(output) /\ HoldsCompleteNumber(input, NationalDigits(output)))
    /\ input = <<"+", "9", "1", " ", "9", "8", "7", "6", "5", "4", "3", "2", "1", "0">> =>
         output = input
    /\ input = <<"9", "8", "7", "6", "5", "4", "3", "2", "1", "0", "5">> => output = <<>>

\* ------------------------------------------------------------------------
\* ResumeAnalyzer: extract_contact_info, the address
\* ------------------------------------------------------------------------
\* A text of this part is a sequence of lines and a line a sequence of
\* entries written with " | " between them.
MaxEntries == 3   \* a text holds 1..MaxEntries entries

EMAIL == "a@b.com"
URL == "http://x.io"
ADDR == "12 Main St, Austin, TX 78701"
SHORT == "1 A St, B, TX 78701"
HTTPADDR == "12 Http Street, Austin, TX 78701"
ZIP4 == "Austin, TX 78701-1234"

Entries == {EMAIL, URL, ADDR, SHORT, HTTPADDR, ZIP4}

\* the texts of n entries: each entry after the first goes on the line of
\* the entry before it or starts a new line
RECURSIVE TextsOf(_)
TextsOf(n) ==
  IF n = 1 THEN {<<<<entry>>>> : entry \in Entries}
  ELSE LET shorter == TextsOf(n - 1)
       IN {[t EXCEPT ![Len(t)] = @ \o <<entry>>] : t \in shorter, entry \in Entries}
            \cup {t \o <<<<entry>>>> : t \in shorter, entry \in Entries}

AddressTexts == UNION {TextsOf(n) : n \in 1..MaxEntries}

\* len(entry)
Length(entry) ==
  CASE entry = EMAIL -> 7
    [] entry = URL -> 11
    [] entry = ADDR -> 28
    [] entry = SHORT -> 19
    [] entry = HTTPADDR -> 32
    [] entry = ZIP4 -> 21
    [] entry = "com" -> 3
    [] entry = "io" -> 2
    [] entry = "\n" -> 1

\* the words of ['email', 'phone', 'linkedin', 'github', 'http', '@'] that
\* are in entry.lower()
BannedWordsIn(entry) ==
  CASE entry = EMAIL -> {"@"}
    [] entry = URL -> {"http"}
    [] entry = HTTPADDR -> {"http"}
    [] OTHER -> {}

\* the letters an entry ends with, "" when it ends with a digit
TrailingLetters(entry) ==
  CASE entry = EMAIL -> "com"
    [] entry = URL -> "io"
    [] OTHER -> ""

\* the entries of a text in its order, each with its line
RECURSIVE Flatten(_, _)
Flatten(lines, n) ==
  IF n > Len(lines) THEN <<>>
  ELSE [k \in 1..Len(lines[n]) |-> [entry |-> lines[n][k], line |-> n, first |-> k = 1]]
         \o Flatten(lines, n + 1)

NoMatch == [group |-> <<>>, lines |-> {}]

\* re.search of the first address pattern, number street suffix, city, ST
\* and a 5-digit ZIP: the leftmost entry of that form
RECURSIVE StreetSearch(_)
StreetSearch(entries) ==
  IF entries = <<>> THEN NoMatch
  ELSE IF Head(entries).entry \in {ADDR, SHORT, HTTPADDR}
  THEN [group |-> <<Head(entries).entry>>, lines |-> {Head(entries).line}]
  ELSE StreetSearch(Tail(entries))

\* re.search of the second address pattern, city, ST and ZIP+4: the leftmost
\* entry of that form, and with it the letters that end the line before when
\* the entry starts its line, since [A-Za-z\s]+ runs over the line break
RECURSIVE CitySearch(_, _)
CitySearch(entries, before) ==
  IF entries = <<>> THEN NoMatch
  ELSE IF Head(entries).entry = ZIP4
  THEN IF Head(entries).first /\ before # "" /\ TrailingLetters(before) # ""
       THEN [group |-> <<TrailingLetters(before), "\n", ZIP4>>,
             lines |-> {Head(entries).line - 1, Head(entries).line}]
       ELSE [group |-> <<ZIP4>>, lines |-> {Head(entries).line}]
  ELSE CitySearch(Tail(entries), Head(entries).entry)

address_patterns == <<"street", "city">>

address_search(pattern, lines) ==
  IF pattern = "street" THEN StreetSearch(Flatten(lines, 1))
  ELSE CitySearch(Flatten(lines, 1), "")

RECURSIVE SumLength(_)
SumLength(group) == IF group = <<>> THEN 0 ELSE Length(Head(group)) + SumLength(Tail(group))

\* the gates: the length, the comma, the ZIP code (both in every match of the
\* patterns) and the banned words
PassesGates(group) ==
  /\ SumLength(group) > 20
  /\ SumLength(group) < 80
  /\ \A k \in 1..Len(group) : BannedWordsIn(group[k]) = {}

\* `for pattern in address_patterns: ... break`
RECURSIVE AddressLoop(_, _)
AddressLoop(patterns, lines) ==
  IF patterns = <<>> THEN NoMatch
  ELSE LET address_match == address_search(Head(patterns), lines)
       IN IF address_match.group # <<>> /\ PassesGates(address_match.group)
          THEN address_match
          ELSE AddressLoop(Tail(patterns), lines)

\* contact_info['address'] of extract_contact_info, with the lines of the
\* text the match spans
extract_address(lines) ==
  LET address_match == AddressLoop(address_patterns, lines)
  IN [address |-> address_match.group, lines |-> address_match.lines]

AddressInit ==
  /\ called = ""
  /\ input \in AddressTexts
  /\ output = <<>>

CallExtractAddress ==
  /\ called = ""
  /\ called' = "extract_contact_info"
  /\ output' = extract_address(input)
  /\ UNCHANGED input
  /\ UNCHANGED <<quizVars, analyzeVars, exception, appVars>>

InitAddress == AddressInit /\ QuizIdle /\ AnalyzeIdle /\ AppIdle

NextAddress == CallExtractAddress

\* the address extract_contact_info finds in a text
SpecAddress == InitAddress /\ [][NextAddress]_vars

\* a line of the text contains '@' or 'http'
ContactLine(line) ==
  \E k \in 1..Len(line) : BannedWordsIn(line[k]) \cap {"@", "http"} # {}

\* an entry holds an address that passes every validation gate
GatedAddress(entry) == entry \in {ADDR, ZIP4}

\* C17: extract_contact_info never populates the address from a line of the
\* text that contains '@' or 'http', even if that line holds a street, city
\* and state with a 5-digit ZIP, and when no address pattern passes every
\* validation gate the address is the empty string.
AddressNotFromContactLine ==
  called = "extract_contact_info" =>
    /\ \A n \in output.lines : ~ContactLine(input[n])
    /\ (\A n \in 1..Len(input) : \A k \in 1..Len(input[n]) : ~GatedAddress(input[n][k]))
         => output.address = <<>>

\* ------------------------------------------------------------------------
\* ResumeAnalyzer: extract_name
\* ------------------------------------------------------------------------
\* A text of this part is the sequence of its lines, text.split('\n').
MaxLines == 6      \* a text holds 1..MaxLines lines
ScannedLines == 5  \* lines[:5]
MaxNameWords == 4  \* len(line.split()) <= 4
MinNameLength == 2 \* len(line) > 2

NameLines ==
  {"", "John Smith", "  Jane Doe  ", "My Resume",
   "Senior Software Engineer At Acme", "Al", "john-smith"}

NameTexts == UNION {[1..n -> NameLines] : n \in 1..MaxLines}

\* line.strip()
StripLine(line) == IF line = "  Jane Doe  " THEN "Jane Doe" ELSE line

\* len(line.split())
WordCount(line) ==
  CASE line = "" -> 0
    [] line = "John Smith" -> 2
    [] line = "Jane Doe" -> 2
    [] line = "  Jane Doe  " -> 2
    [] line = "My Resume" -> 2
    [] line = "Senior Software Engineer At Acme" -> 5
    [] line = "Al" -> 1
    [] line = "john-smith" -> 1

\* len(line)
LineLength(line) ==
  CASE line = "" -> 0
    [] line = "John Smith" -> 10
    [] line = "Jane Doe" -> 8
    [] line = "  Jane Doe  " -> 12
    [] line = "My Resume" -> 9
    [] line = "Senior Software Engineer At Acme" -> 32
    [] line = "Al" -> 2
    [] line = "john-smith" -> 10

\* the words of ['email', 'phone', 'address', 'resume', 'cv', '@', 'http']
\* that are in line.lower()
NameKeywordsIn(line) == IF line = "My Resume" THEN {"resume"} ELSE {}

\* re.search(r'^[A-Za-z\s\.]+$', line)
OnlyLettersSpacesPeriods(line) == line \notin {"", "john-smith"}

\* the lines extract_name looks at, as they were counted in the original
\* reading: the first 5 lines that are not empty
RECURSIVE SelectNonEmpty(_)
SelectNonEmpty(lines) ==
  IF lines = <<>> THEN <<>>
  ELSE IF Head(lines) = "" THEN SelectNonEmpty(Tail(lines))
  ELSE <<Head(lines)>> \o SelectNonEmpty(Tail(lines))

FirstNonEmptyLines(lines) ==
  SubSeq(SelectNonEmpty(lines), 1, Min(ScannedLines, Len(SelectNonEmpty(lines))))

\* lines[:5]
FirstLines(lines) == SubSeq(lines, 1, Min(ScannedLines, Len(lines)))

\* `for line in lines[:5]: ...` and `return "Candidate"`
RECURSIVE NameLoop(_)
NameLoop(lines) ==
  IF lines = <<>> THEN "Candidate"
  ELSE LET line == StripLine(Head(lines))
       IN IF /\ line # ""
             /\ WordCount(line) <= MaxNameWords
             /\ NameKeywordsIn(line) = {}
             /\ OnlyLettersSpacesPeriods(line)
             /\ LineLength(line) > MinNameLength
          THEN line
          ELSE NameLoop(Tail(lines))

extract_name(lines) == NameLoop(FirstLines(lines))

NameInit ==
  /\ called = ""
  /\ input \in NameTexts
  /\ output = <<>>

CallExtractName ==
  /\ called = ""
  /\ called' = "extract_name"
  /\ output' = <<extract_name(input)>>
  /\ UNCHANGED input
  /\ UNCHANGED <<quizVars, analyzeVars, exception, appVars>>

InitName == NameInit /\ QuizIdle /\ AnalyzeIdle /\ AppIdle

NextName == CallExtractName

\* the name extract_name finds in a text
SpecName == InitName /\ [][NextName]_vars

\* a line qualifies as a name: at most 4 words, no contact or metadata
\* keyword, only letters, spaces and periods, more than 2 characters
Qualifies(line) ==
  /\ WordCount(line) \in 1..MaxNameWords
  /\ NameKeywordsIn(line) = {}
  /\ OnlyLettersSpacesPeriods(line)
  /\ LineLength(line) > MinNameLength

\* the first of the lines that qualifies, stripped, "Candidate" when none does
FirstQualifying(lines) ==
  LET found == {n \in 1..Len(lines) : Qualifies(StripLine(lines[n]))}
  IN IF found = {} THEN "Candidate" ELSE StripLine(lines[Least(found)])

\* The original reading of C18, which the code does not have: extract_name
\* scans the first 5 non-empty lines of the text and returns the first of them
\* that qualifies, "Candidate" exactly when none of them does.
NameFromFirstNonEmptyLines ==
  called = "extract_name" =>
    output = <<FirstQualifying(FirstNonEmptyLines(input))>>

\* C18: extract_name scans the first 5 lines of the text, blank lines
\* counted, and returns, stripped, the first of them that has 1 to 4
\* whitespace-separated tokens, contains none of the contact/metadata
\* keywords, and consists only of letters, spaces and periods with length > 2;
\* it returns "Candidate" when none of those 5 lines qualifies.
NameFromFirstLines ==
  called = "extract_name" =>
    LET scanned == [n \in 1..Min(ScannedLines, Len(input)) |-> input[n]]
    IN output = <<FirstQualifying(scanned)>>

\* a name on the sixth line, after five blank lines, is not found
NameFromFirstLinesWitness ==
  /\ called = "extract_name"
  /\ input = <<"", "", "", "", "", "John Smith">>
  /\ output = <<"Candidate">>

\* the second of two qualifying lines is passed over, blank lines between
NameStrippedWitness ==
  /\ called = "extract_name"
  /\ input = <<"My Resume", "", "  Jane Doe  ", "John Smith">>
  /\ output = <<"Jane Doe">>

\* ------------------------------------------------------------------------
\* ResumeAnalyzer: generate_candidate_summary
\* ------------------------------------------------------------------------
MaxSummaryProjects == 2  \* analysis_data['projects'] holds 0..MaxSummaryProjects titles
PrimarySkills == 5       \* skills[:5]

CandidateNames == {"John Smith", "Candidate"}

Educations == {"", "Bachelor of Science", "master of arts", "Diploma in Computing"}

ExperienceTexts == {"", "Software Intern at Acme", "International Sales Lead", "Senior Engineer"}

SkillLists ==
  {<<>>, <<"Python">>, <<"Python", "SQL">>,
   <<"Python", "SQL", "Git", "Java", "React", "AWS">>}

ProjectTitles == {"Machine Learning Pipeline", "Web Shop", "Chess Engine", "Email Application"}

SummaryInputs ==
  [candidate_name : CandidateNames,
   skills : SkillLists,
   education : Educations,
   experience : ExperienceTexts,
   projects : UNION {[1..n -> ProjectTitles] : n \in 0..MaxSummaryProjects}]

\* the words the summary looks for that are in field.lower()
WordsIn(field) ==
  CASE field = "Bachelor of Science" -> {"bachelor"}
    [] field = "master of arts" -> {"master"}
    [] field = "Software Intern at Acme" -> {"intern"}
    [] field = "International Sales Lead" -> {"intern"}
    [] field = "Machine Learning Pipeline" -> {"machine learning"}
    [] field = "Web Shop" -> {"web"}
    [] field = "Email Application" -> {"ai", "application"}
    [] OTHER -> {}

\* the words in ' '.join(projects).lower(); no word of the summary starts in
\* one of these titles and ends in the next
WordsInProjects(projects) == UNION {WordsIn(projects[n]) : n \in 1..Len(projects)}

Sentence(part, alternative, args) == [part |-> part, alternative |-> alternative, args |-> args]

Space == Sentence("separator", " ", <<>>)

\* ', '.join(primary_skills[:-1]) + " and " + primary_skills[-1], or the only
\* skill
RECURSIVE CommaJoin(_)
CommaJoin(names) ==
  IF Len(names) = 1 THEN names
  ELSE <<Head(names), ", ">> \o CommaJoin(Tail(names))

skills_text(skills) ==
  LET primary_skills == SubSeq(skills, 1, Min(PrimarySkills, Len(skills)))
  IN IF Len(primary_skills) > 1
     THEN CommaJoin(SubSeq(primary_skills, 1, Len(primary_skills) - 1))
            \o <<" and ", primary_skills[Len(primary_skills)]>>
     ELSE <<primary_skills[1]>>

EducationPart(education) ==
  IF education # ""
  THEN IF "bachelor" \in WordsIn(education) \/ "master" \in WordsIn(education)
       THEN <<Sentence("education", "holds relevant academic qualifications", <<>>)>>
       ELSE <<Sentence("education", "has pursued formal education", <<>>)>>
  ELSE <<Sentence("education", "strong self-learning capabilities", <<>>)>>

SkillsPart(skills) ==
  IF skills # <<>>
  THEN <<Sentence("skills", "technical expertise includes", skills_text(skills))>>
  ELSE <<>>

DomainPart(projects) ==
  LET project_text == WordsInProjects(projects)
  IN IF "machine learning" \in project_text \/ "ai" \in project_text
     THEN <<Sentence("domain", "artificial intelligence and machine learning", <<>>)>>
     ELSE IF "web" \in project_text \/ "application" \in project_text
     THEN <<Sentence("domain", "web development and application building", <<>>)>>
     ELSE <<Sentence("domain", "diverse technical interests", <<>>)>>

ProjectsPart(projects) ==
  IF projects # <<>>
  THEN (IF Len(projects) >= 2
        THEN <<Sentence("projects", "notable projects",
                        <<ToString(Len(projects)), projects[1], projects[2]>>)>>
        ELSE <<Sentence("projects", "meaningful projects", <<projects[1]>>)>>)
         \o DomainPart(projects)
  ELSE <<Sentence("projects", "enthusiasm for learning", <<>>)>>

\* `'intern' in experience.lower() or not experience`, and the same with the
\* first test left out
EmergingWhenEmpty(experience) == experience = ""
Emerging(experience) == "intern" \in WordsIn(experience) \/ experience = ""

OutlookPart(experience) ==
  IF Emerging(experience)
  THEN <<Sentence("outlook", "emerging professional", <<>>)>>
  ELSE <<Sentence("outlook", "well-positioned", <<>>)>>

\* ' '.join(summary_parts)
RECURSIVE SpaceJoin(_)
SpaceJoin(summary_parts) ==
  IF Len(summary_parts) <= 1 THEN summary_parts
  ELSE <<Head(summary_parts), Space>> \o SpaceJoin(Tail(summary_parts))

generate_candidate_summary(analysis_data) ==
  LET summary_parts ==
        <<Sentence("introduction", "dedicated professional", <<analysis_data.candidate_name>>)>>
          \o EducationPart(analysis_data.education)
          \o SkillsPart(analysis_data.skills)
          \o ProjectsPart(analysis_data.projects)
          \o OutlookPart(analysis_data.experience)
  IN SpaceJoin(summary_parts)

SummaryInit ==
  /\ called = ""
  /\ input \in SummaryInputs
  /\ output = <<>>

CallGenerateCandidateSummary ==
  /\ called = ""
  /\ called' = "generate_candidate_summary"
  /\ output' = generate_candidate_summary(input)
  /\ UNCHANGED input
  /\ UNCHANGED <<quizVars, analyzeVars, exception, appVars>>

InitSummary == SummaryInit /\ QuizIdle /\ AnalyzeIdle /\ AppIdle

NextSummary == CallGenerateCandidateSummary

\* the summary generate_candidate_summary writes of the extracted fields
SpecSummary == InitSummary /\ [][NextSummary]_vars

\* the sentences of a summary, the separators left out
Sentences(summary) == SelectSeq(summary, LAMBDA s : s.part # "separator")

\* the parts a summary of these fields holds, in their order
PartsOf(fields) ==
  <<"introduction", "education">>
    \o (IF fields.skills # <<>> THEN <<"skills">> ELSE <<>>)
    \o <<"projects">>
    \o (IF fields.projects # <<>> THEN <<"domain">> ELSE <<>>)
    \o <<"outlook">>

\* the alternative the summary holds for a part
AlternativeOf(summary, part) ==
  LET found == {n \in 1..Len(summary) : summary[n].part = part}
  IN summary[Least(found)].alternative

\* C20: generate_candidate_summary emits its sentences joined by single
\* spaces in the order introduction, education, skills (only when there are
\* skills), projects, domain interest (only when there is a project),
\* outlook, one alternative for each; the education alternative is chosen by
\* 'bachelor'/'master' present, else non-empty, else empty, the domain
\* alternative by machine learning/ai before web/application before generic,
\* and the outlook is 'emerging professional' exactly when the experience
\* text is empty or contains 'intern'.
SummaryInFixedOrder ==
  called = "generate_candidate_summary" =>
    LET sentences == Sentences(output)
        education == WordsIn(input.education)
        domain == WordsInProjects(input.projects)
    IN /\ Len(output) = 2 * Len(sentences) - 1
       /\ \A n \in 1..Len(output) : (output[n] = Space) <=> (n % 2 = 0)
       /\ [n \in 1..Len(sentences) |-> sentences[n].part] = PartsOf(input)
       /\ AlternativeOf(output, "education") =
            (IF education \cap {"bachelor", "master"} # {}
             THEN "holds relevant academic qualifications"
             ELSE IF input.education # "" THEN "has pursued formal education"
             ELSE "strong self-learning capabilities")
       /\ input.projects # <<>> =>
            AlternativeOf(output, "domain") =
              (IF domain \cap {"machine learning", "ai"} # {}
               THEN "artificial intelligence and machine learning"
               ELSE IF domain \cap {"web", "application"} # {}
               THEN "web development and application building"
               ELSE "diverse technical interests")
       /\ (AlternativeOf(output, "outlook") = "emerging professional")
            <=> (input.experience = "" \/ "intern" \in WordsIn(input.experience))
       /\ (AlternativeOf(output, "outlook") = "well-positioned")
            <=> ~(input.experience = "" \/ "intern" \in WordsIn(input.experience))

\* all six parts, the domain decided by 'ai' although 'application' and 'web'
\* are there too, the outlook by 'intern' in a text that is not empty
SummaryInFixedOrderWitness ==
  /\ called = "generate_candidate_summary"
  /\ input.skills = <<"Python", "SQL">>
  /\ input.projects = <<"Web Shop", "Email Application">>
  /\ input.education = "Diploma in Computing"
  /\ input.experience = "International Sales Lead"
  /\ Len(output) = 11
  /\ AlternativeOf(output, "domain") = "artificial intelligence and machine learning"
  /\ AlternativeOf(output, "outlook") = "emerging professional"
  /\ AlternativeOf(output, "education") = "has pursued formal education"

\* neither skills nor projects: four sentences
SummaryShortestWitness ==
  /\ called = "generate_candidate_summary"
  /\ input.skills = <<>>
  /\ input.projects = <<>>
  /\ Len(Sentences(output)) = 4

\* ------------------------------------------------------------------------
\* QuizGenerator: the returned questions as strings
\* ------------------------------------------------------------------------
\* C22: every question generate_questions returns is fully formatted: no
\* returned question still contains a template placeholder ({skill},
\* {skill1}, {skill2} or {project}), project questions drawn from
\* technical_deep_dive and skill questions of a single-skill list included.
NoPlaceholderLeft ==
  pc = "done" => \A k \in 1..Len(result) : result[k].unfilled = {}

\* ------------------------------------------------------------------------
\* QuizGenerator: generate_diverse_general_questions, template by template
\* ------------------------------------------------------------------------
PoolSize == 7   \* each pool of question_generators holds 7 templates

\* The general fill returns its templates verbatim, so the strings it
\* returns are the templates it drew.  The templates of a pool are numbered
\* in the order in which they are first drawn: random.choice yields one of
\* the templates drawn before or, while the pool has one left, the next.
DrawnOf(category, questions) ==
  {questions[k].template : k \in {n \in 1..Len(questions) : questions[n].category = category}}

Choice(category, questions) ==
  1..Min(PoolSize, Cardinality(DrawnOf(category, questions)) + 1)

WordingInit ==
  /\ called = "generate_diverse_general_questions"
  /\ input = <<>>
  /\ output = <<>>

\* one iteration of the loop of generate_diverse_general_questions, with the
\* template that was drawn: `output` is the list `questions` of the generator
GeneralLoopWorded ==
  /\ pc = "general"
  /\ i < count
  /\ LET category == available_categories[(i % Len(available_categories)) + 1]
     IN \E template \in Templates(category) :
        \E drawn \in Choice(category, output) :
          /\ all_questions' =
               Extend(all_questions, <<GeneralQuestion(category, template)>>)
          /\ used_question_types' = used_question_types \cup {category}
          /\ output' = Append(output, [category |-> category, template |-> drawn])
  /\ i' = i + 1
  /\ UNCHANGED <<analysis_result, pc, count, available_categories, result, previous>>
  /\ UNCHANGED <<analyzeVars, exception, appVars, called, input>>

InitWording == QuizInit /\ AnalyzeIdle /\ AppIdle /\ WordingInit

NextWording ==
  \/ ProjectLoop
  \/ ProjectsDone
  \/ SkillLoop
  \/ SkillsDone
  \/ GeneralLoopWorded
  \/ GeneralDone
  \/ Return

\* one call of generate_unique_questions, the templates of its general fill
\* told apart
SpecWording == InitWording /\ [][NextWording]_vars

\* what tells the string of the k-th returned question from the others: the
\* prefix or formatting and the project or skills it names, the pool and
\* the form of its template and, for a general question, the template itself
QuestionString(k) ==
  LET question == result[k]
      others == CountKind(result, "project") + CountKind(result, "skill")
  IN [kind |-> question.kind, subject |-> question.subject, other |-> question.other,
      category |-> question.category, form |-> question.template,
      template |-> IF question.kind = "general" THEN output[k - others].template ELSE 0]

\* C21: the questions generate_unique_questions returns are completely
\* unique: for every analysis result and every outcome of the random
\* selections, no two questions of the returned list are the same string.
AllQuestionsUnique ==
  pc = "done" =>
    \A j, k \in 1..Len(result) : j # k => QuestionString(j) # QuestionString(k)

\* ------------------------------------------------------------------------
\* ResumeAnalyzer: extract_section and extract_projects
\* ------------------------------------------------------------------------
\* A text of this part is a sequence of tokens: a token is a newline, a
\* space, a colon, a bullet, or a run of characters that holds none of them
\* at its ends.  The texts are made of whole lines.
MaxSectionLines == 4   \* a text holds 1..MaxSectionLines lines

NL == "\n"
SP == " "
COLON == ":"
BULLET == "-"
TitleA == "Resume Analyzer System using NLP"
TitleB == "Inventory Management Application"
Detail == "built with Python and Flask"
SkillNames == "Python, SQL"

\* the lines "Projects:", the two titles, "- built with Python and Flask",
\* "Skills: Python, SQL" and the empty line
SectionLines ==
  {<<"Project", "s", COLON>>, <<TitleA>>, <<TitleB>>, <<BULLET, SP, Detail>>,
   <<"Skills", COLON, SP, SkillNames>>, <<>>}

\* '\n'.join(lines)
RECURSIVE JoinLines(_)
JoinLines(lines) ==
  IF Len(lines) = 1 THEN lines[1]
  ELSE lines[1] \o <<NL>> \o JoinLines(Tail(lines))

SectionTexts ==
  {JoinLines(lines) : lines \in UNION {[1..n -> SectionLines] : n \in 1..MaxSectionLines}}

\* len(token)
TokenLength(token) ==
  CASE token = "Project" -> 7
    [] token = "Skills" -> 6
    [] token = TitleA -> 32
    [] token = TitleB -> 32
    [] token = Detail -> 27
    [] token = SkillNames -> 11
    [] OTHER -> 1

RECURSIVE TextLength(_)
TextLength(tokens) ==
  IF tokens = <<>> THEN 0 ELSE TokenLength(Head(tokens)) + TextLength(Tail(tokens))

\* \s matches every character of the token
Spaces == {NL, SP}
IsSpace(token) == token \in Spaces

\* [A-Za-z\s] matches every character of the token
Alphabetic == {"Project", "s", "Skills", TitleA, TitleB, Detail} \cup Spaces
IsAlpha(token) == token \in Alphabetic

\* [A-Z] matches the first character of the token
StartsUpper(token) == token \in {"Project", "Skills", TitleA, TitleB, SkillNames}

\* [A-Z] under (?i) matches the first character of the token
StartsLetter(token) == StartsUpper(token) \/ token \in {"s", Detail}

\* the index after the run of tokens from k on that belong to a class
RECURSIVE SkipRun(_, _, _)
SkipRun(tokens, k, class) ==
  IF k <= Len(tokens) /\ tokens[k] \in class THEN SkipRun(tokens, k + 1, class) ELSE k

\* re.escape(keyword) under (?i) at token k: the index after it, 0 when it
\* does not match there
KeywordEnd(keyword, tokens, k) ==
  IF keyword = "projects" /\ tokens[k] = "Project" /\ k < Len(tokens) /\ tokens[k + 1] = "s"
  THEN k + 2
  ELSE IF keyword = "project" /\ tokens[k] = "Project" THEN k + 1
  ELSE 0

\* $ (no MULTILINE): the end of the text, or just before a newline that ends it
AtEnd(tokens, k) == k = Len(tokens) + 1 \/ (k = Len(tokens) /\ tokens[k] = NL)

\* (?=\n\s*[A-Z][A-Za-z\s]*\s*:) at token k, and without the \s* after \n
HeaderAhead(tokens, k, blanks) ==
  /\ k <= Len(tokens)
  /\ tokens[k] = NL
  /\ LET first == IF blanks THEN SkipRun(tokens, k + 1, Spaces) ELSE k + 1
     IN /\ first <= Len(tokens)
        /\ StartsLetter(tokens[first])
        /\ IsAlpha(tokens[first])
        /\ LET colon == SkipRun(tokens, first + 1, Alphabetic)
           IN colon <= Len(tokens) /\ tokens[colon] = COLON

\* what ends the content of a pattern at token k
Terminates(pattern, tokens, k) ==
  \/ AtEnd(tokens, k)
  \/ pattern \in {1, 2} /\ HeaderAhead(tokens, k, TRUE)
  \/ pattern = 3 /\ HeaderAhead(tokens, k, FALSE)
  \/ pattern = 3 /\ k < Len(tokens) /\ tokens[k] = NL /\ tokens[k + 1] = NL

\* (.+?) from token a on: the index of the last token of the content
RECURSIVE LazyEnd(_, _, _)
LazyEnd(pattern, tokens, e) ==
  IF Terminates(pattern, tokens, e + 1) THEN e ELSE LazyEnd(pattern, tokens, e + 1)

\* the last newline of tokens k..last with a token after it, 0 when none
RECURSIVE LastNewline(_, _, _)
LastNewline(tokens, k, last) ==
  IF last < k THEN 0
  ELSE IF tokens[last] = NL /\ last < Len(tokens) THEN last
  ELSE LastNewline(tokens, k, last - 1)

\* where group 1 starts when the pattern matches with the keyword ending
\* before token k, 0 when it does not match: [:\s]*\n for the first pattern,
\* [:\s]* for the others, both giving back what the content needs
ContentStart(pattern, tokens, k) ==
  LET after == SkipRun(tokens, k, {COLON} \cup Spaces)
  IN IF pattern = 1
     THEN (IF LastNewline(tokens, k, after - 1) = 0 THEN 0
           ELSE LastNewline(tokens, k, after - 1) + 1)
     ELSE IF after <= Len(tokens) THEN after
     ELSE IF after > k THEN after - 1
     ELSE 0

\* re.search(pattern, text, re.DOTALL).group(1): the leftmost match
RECURSIVE SectionSearch(_, _, _, _)
SectionSearch(keyword, pattern, tokens, k) ==
  IF k > Len(tokens) THEN <<>>
  ELSE LET start == IF KeywordEnd(keyword, tokens, k) = 0 THEN 0
                    ELSE ContentStart(pattern, tokens, KeywordEnd(keyword, tokens, k))
       IN IF start = 0 THEN SectionSearch(keyword, pattern, tokens, k + 1)
          ELSE <<SubSeq(tokens, start, LazyEnd(pattern, tokens, start))>>

\* content.strip()
RECURSIVE StripTokens(_)
StripTokens(tokens) ==
  IF tokens = <<>> THEN <<>>
  ELSE IF IsSpace(Head(tokens)) THEN StripTokens(Tail(tokens))
  ELSE IF IsSpace(tokens[Len(tokens)]) THEN StripTokens(SubSeq(tokens, 1, Len(tokens) - 1))
  ELSE tokens

\* re.sub(r'\n\s*\n', '\n', content) and re.sub(r'\s+', ' ', content): every
\* run of whitespace becomes one space
RECURSIVE NormalizeWhitespace(_)
KeepWhitespace(tokens) == tokens
NormalizeWhitespace(tokens) ==
  IF tokens = <<>> THEN <<>>
  ELSE IF IsSpace(Head(tokens))
  THEN <<SP>> \o NormalizeWhitespace(SubSeq(tokens, SkipRun(tokens, 1, Spaces), Len(tokens)))
  ELSE <<Head(tokens)>> \o NormalizeWhitespace(Tail(tokens))

MinSectionLength == 20   \* len(content) > 20

SectionPatterns == <<1, 2, 3>>

\* `for keyword in keywords: for pattern in patterns: ...`, flattened
RECURSIVE SectionLoop(_, _, _)
SectionLoop(keywords, patterns, tokens) ==
  IF keywords = <<>> THEN <<>>
  ELSE IF patterns = <<>> THEN SectionLoop(Tail(keywords), SectionPatterns, tokens)
  ELSE LET match == SectionSearch(Head(keywords), Head(patterns), tokens, 1)
           content == IF match = <<>> THEN <<>>
                      ELSE NormalizeWhitespace(StripTokens(match[1]))
       IN IF match # <<>> /\ TextLength(content) > MinSectionLength
          THEN content
          ELSE SectionLoop(keywords, Tail(patterns), tokens)

\* self.required_keywords['projects'], in the order of the list
ProjectKeywords == <<"projects", "project", "portfolio", "work samples", "achievements">>

\* extract_section(text, section_name), keywords being
\* self.required_keywords.get(section_name)
extract_section(tokens, keywords) == SectionLoop(keywords, SectionPatterns, tokens)

\* re.split(separator, tokens) where the separator is a newline, followed by
\* an uppercase letter when `upper`
RECURSIVE SplitAtNewline(_, _, _)
SplitAtNewline(tokens, upper, block) ==
  IF tokens = <<>> THEN <<block>>
  ELSE IF /\ Head(tokens) = NL
          /\ (upper => (Len(tokens) > 1 /\ StartsUpper(tokens[2])))
  THEN <<block>> \o SplitAtNewline(Tail(tokens), upper, <<>>)
  ELSE SplitAtNewline(Tail(tokens), upper, Append(block, Head(tokens)))

\* re.sub(r'^[\d\.\)\s...\*-]+', '', first_line): bullets and numbering
RECURSIVE RemoveBullets(_)
RemoveBullets(tokens) ==
  IF tokens # <<>> /\ (Head(tokens) = BULLET \/ IsSpace(Head(tokens)))
  THEN RemoveBullets(Tail(tokens))
  ELSE tokens

\* the words of (system|application|platform|tool|analyzer|generator|
\* classification|management|detection) in the token, under (?i)
TitleWordsIn(token) ==
  CASE token = TitleA -> {"system", "analyzer"}
    [] token = TitleB -> {"management", "application"}
    [] OTHER -> {}

\* ' ' in token
HasSpace(token) == token \in {SP, TitleA, TitleB, Detail, SkillNames}

MinTitleLength == 20     \* len(first_line) > 20
MaxTitleLength == 100    \* len(first_line) < 100
MinProjectLength == 25   \* len(project) > 25
MaxReturnedProjects == 3 \* validated_projects[:3]

\* the first line of a block, cleaned
FirstLine(block) ==
  StripTokens(RemoveBullets(StripTokens(SplitAtNewline(StripTokens(block), FALSE, <<>>)[1])))

\* `if (len(first_line) > 20 and ...): if (re.search(...) or ...)`: none of
\* the tokens starts with algorithm, tool, outcome or technology, holds
\* department, college, university or academic projects, or `using` before
\* machine learning, ai, web or database
IsProjectTitle(first_line) ==
  /\ TextLength(first_line) > MinTitleLength
  /\ TextLength(first_line) < MaxTitleLength
  /\ \E k \in 1..Len(first_line) : TitleWordsIn(first_line[k]) # {}

\* the final validation
IsValidated(project) ==
  /\ TextLength(project) > MinProjectLength
  /\ \E k \in 1..Len(project) : HasSpace(project[k])

RECURSIVE SelectTitles(_)
SelectTitles(project_blocks) ==
  IF project_blocks = <<>> THEN <<>>
  ELSE LET first_line == FirstLine(Head(project_blocks))
       IN (IF IsProjectTitle(first_line) /\ IsValidated(first_line)
           THEN <<first_line>> ELSE <<>>) \o SelectTitles(Tail(project_blocks))

extract_projects(tokens) ==
  LET projects_section == extract_section(tokens, ProjectKeywords)
  IN IF projects_section = <<>> THEN <<>>
     ELSE Prefix(SelectTitles(SplitAtNewline(projects_section, TRUE, <<>>)),
                 MaxReturnedProjects)

ProjectsInit ==
  /\ called = ""
  /\ input \in SectionTexts
  /\ output = <<>>

CallExtractProjects ==
  /\ called = ""
  /\ called' = "extract_projects"
  /\ output' = extract_projects(input)
  /\ UNCHANGED input
  /\ UNCHANGED <<quizVars, analyzeVars, exception, appVars>>

InitProjects == ProjectsInit /\ QuizIdle /\ AnalyzeIdle /\ AppIdle

NextProjects == CallExtractProjects

\* the project names extract_projects finds in a text
SpecProjects == InitProjects /\ [][NextProjects]_vars

\* C23: for every text extract_projects returns at most 1 project name:
\* the content extract_section returns has its whitespace runs, newlines
\* included, collapsed to single spaces, so the split at a newline before an
\* uppercase letter yields one block and the only candidate title is the
\* whole cleaned section text; with fewer than 2 projects the summary's
\* sentence and the allocation for 2 or more projects are out of reach.
AtMostOneProject ==
  called = "extract_projects" =>
    LET projects_section == extract_section(input, ProjectKeywords)
    IN /\ Len(output) <= 1
       /\ \A k \in 1..Len(projects_section) :
            /\ projects_section[k] # NL
            /\ (k > 1 /\ projects_section[k] = SP) => projects_section[k - 1] # SP
       /\ output # <<>> => output[1] = RemoveBullets(projects_section)

\* two titles on two lines under the heading come back as one project name
AtMostOneProjectWitness ==
  /\ called = "extract_projects"
  /\ input = <<"Project", "s", COLON, NL, TitleA, NL, TitleB>>
  /\ output = <<<<TitleA, SP, TitleB>>>>

\* a bulleted detail line before the title is part of the one name
BulletRemovedWitness ==
  /\ called = "extract_projects"
  /\ input = <<"Project", "s", COLON, NL, BULLET, SP, Detail, NL, TitleB>>
  /\ output = <<<<Detail, SP, TitleB>>>>

====
